---- MODULE Spec2Model ----
(***************************************************************************)
(* A model of the ADK documentation MCP server: the DocFetcher singleton   *)
(* (src/src/utils/docFetcher.ts), the shared tool handlers (tools.ts), the *)
(* documentation service handlers (documentationService.ts) and the two    *)
(* process entry points (HTTP server, stdio server).                       *)
(*                                                                         *)
(* Strings are sequences of symbols.  Texts (titles, queries, document     *)
(* bodies) are sequences of one-character strings; the control characters  *)
(* are the symbols "LF", "TAB" and "CR".  URLs and paths are sequences of  *)
(* tokens in which every "/" is a token of its own.  An absent JavaScript  *)
(* value is one of the two sentinel strings Null and Undefined.            *)
(***************************************************************************)
EXTENDS Integers, Sequences, FiniteSets, TLC

(***************************************************************************)
(* Bounds of the model.                                                    *)
(***************************************************************************)
\* number of documents of the large bulk feed
MaxDocs == 11
\* number of anchors of the large navigation page
MaxNav == 16
\* a request's raw fetches fail singly, or from some fetch on; the first
\* failing fetch is one of the first MaxFailAt
MaxFailAt == 1
\* an index query returns at most MaxHits references, or all but one, or all
MaxHits == 2

(***************************************************************************)
(* JavaScript values and strings.                                          *)
(***************************************************************************)
Null == <<"<null>">>
Undefined == <<"<undefined>">>

\* JavaScript truthiness of an optional string
Truthy(s) == s # Null /\ s # Undefined /\ s # <<>>

UpperLetters ==
  <<"A","B","C","D","E","F","G","H","I","J","K","L","M",
    "N","O","P","Q","R","S","T","U","V","W","X","Y","Z">>

LowerLetters ==
  <<"a","b","c","d","e","f","g","h","i","j","k","l","m",
    "n","o","p","q","r","s","t","u","v","w","x","y","z">>

DigitChars == <<"0","1","2","3","4","5","6","7","8","9">>

Range(s) == {s[i] : i \in 1..Len(s)}

LowerOf ==
  [c \in Range(UpperLetters) |->
     LowerLetters[CHOOSE i \in 1..Len(UpperLetters) : UpperLetters[i] = c]]

toLowerChar(c) == IF c \in DOMAIN LowerOf THEN LowerOf[c] ELSE c

\* String.prototype.toLowerCase
toLowerCase(s) == [i \in 1..Len(s) |-> toLowerChar(s[i])]

\* s.startsWith(p, at) with a 1-based position
MatchesAt(s, p, at) ==
  /\ at + Len(p) - 1 <= Len(s)
  /\ \A k \in 1..Len(p) : s[at + k - 1] = p[k]

\* String.prototype.indexOf, 1-based; 0 when p does not occur
indexOf(s, p) ==
  IF \E i \in 1..(Len(s) + 1) : MatchesAt(s, p, i)
    THEN CHOOSE i \in 1..(Len(s) + 1) :
           /\ MatchesAt(s, p, i)
           /\ \A j \in 1..(i - 1) : ~MatchesAt(s, p, j)
    ELSE 0

\* String.prototype.includes
includes(s, p) == indexOf(s, p) # 0

Min(a, b) == IF a < b THEN a ELSE b
Max(a, b) == IF a > b THEN a ELSE b

\* String.prototype.substring(from, to) with 0-based offsets, as JavaScript
substring(s, from, to) ==
  LET f == Max(0, Min(from, Len(s)))
      t == Max(0, Min(to, Len(s)))
  IN  SubSeq(s, Min(f, t) + 1, Max(f, t))

\* s with the n symbols from position i on replaced by r; s when i = 0
splice(s, i, n, r) ==
  IF i = 0 THEN s
  ELSE SubSeq(s, 1, i - 1) \o r \o SubSeq(s, i + n, Len(s))

\* String.prototype.replace(pattern, replacement) for a string pattern:
\* the first occurrence only
replaceFirst(s, p, r) == splice(s, indexOf(s, p), Len(p), r)

\* the concatenation of the strings pieces[lo], ..., pieces[hi]
RECURSIVE concatRange(_, _, _)
concatRange(pieces, lo, hi) ==
  IF lo > hi THEN <<>>
  ELSE IF lo = hi THEN pieces[lo]
  ELSE LET mid == (lo + hi) \div 2
       IN  concatRange(pieces, lo, mid) \o concatRange(pieces, mid + 1, hi)

concat(pieces) == concatRange(pieces, 1, Len(pieces))

\* a global replace whose matches cannot overlap: matchLen[i] is the length
\* of the match that starts at i, 0 when none does, and rep[i] what replaces it
rewrite(s, matchLen, rep) ==
  LET covered(i) == \E k \in 1..(i - 1) : matchLen[k] > 0 /\ k + matchLen[k] > i
  IN  concat([i \in 1..Len(s) |->
                IF matchLen[i] > 0 THEN rep[i]
                ELSE IF covered(i) THEN <<>>
                ELSE <<s[i]>>])

\* String.prototype.replace(/literal/g, replacement): every occurrence.  No
\* literal the code replaces can overlap an occurrence of itself.
replaceAll(s, p, r) ==
  IF Len(p) = 0 \/ p[1] \notin Range(s) THEN s
  ELSE IF ~includes(s, p) THEN s
  ELSE rewrite(s, [i \in 1..Len(s) |-> IF MatchesAt(s, p, i) THEN Len(p) ELSE 0],
               [i \in 1..Len(s) |-> r])

\* \s of a JavaScript regular expression, on the symbols of the model
IsSpace(c) == c \in {" ", "LF", "TAB", "CR"}

\* the positions of s that pass the test, in order
positionsWhere(s, Test(_)) == SelectSeq([i \in 1..Len(s) |-> i], Test)

\* replace(/\s+/g, ' '): the first character of a run stays, as a space
collapseSpace(s) ==
  LET kept == positionsWhere(s, LAMBDA i : ~(IsSpace(s[i]) /\ i > 1 /\ IsSpace(s[i - 1])))
  IN  [k \in 1..Len(kept) |-> IF IsSpace(s[kept[k]]) THEN " " ELSE s[kept[k]]]

\* String.prototype.trim
trim(s) ==
  IF \A i \in 1..Len(s) : IsSpace(s[i]) THEN <<>>
  ELSE LET first == CHOOSE i \in 1..Len(s) :
                      ~IsSpace(s[i]) /\ \A j \in 1..(i - 1) : IsSpace(s[j])
           final == CHOOSE i \in 1..Len(s) :
                      ~IsSpace(s[i]) /\ \A j \in (i + 1)..Len(s) : IsSpace(s[j])
       IN  SubSeq(s, first, final)

\* replace(/<[^>]*>/g, '') when minInner = 0, replace(/<[^>]+>/g, '') when
\* minInner = 1.  A match ends at the first ">" after its "<", so between
\* two ">" the match is the one of the first "<" that has minInner
\* characters before the closing ">".
removeTags(s, minInner) ==
  LET closing(i) == CHOOSE j \in i..Len(s) :
                      s[j] = ">" /\ \A k \in i..(j - 1) : s[k] # ">"
      opens(k, j) == s[k] = "<" /\ j - k - 1 >= minInner
                       /\ \A m \in k..(j - 1) : s[m] # ">"
      removed(i) == /\ \E j \in i..Len(s) : s[j] = ">"
                    /\ \E k \in 1..i : opens(k, closing(i))
  IN  IF "<" \notin Range(s) THEN s
      ELSE LET kept == positionsWhere(s, LAMBDA i : ~removed(i))
           IN  [k \in 1..Len(kept) |-> s[kept[k]]]

\* the character class [a-zA-Z0-9#]
IsEntityChar(c) ==
  c \in Range(UpperLetters) \cup Range(LowerLetters) \cup Range(DigitChars) \cup {"#"}

\* the length of the match of /&[a-zA-Z0-9#]+;/ that starts at i, 0 when
\* none does
entityLen(s, i) ==
  IF s[i] = "&" /\ \E j \in (i + 2)..Len(s) :
                     s[j] = ";" /\ \A k \in (i + 1)..(j - 1) : IsEntityChar(s[k])
    THEN (CHOOSE j \in (i + 2)..Len(s) :
            s[j] = ";" /\ \A k \in (i + 1)..(j - 1) : IsEntityChar(s[k])) - i + 1
    ELSE 0

\* replace(/&[a-zA-Z0-9#]+;/g, ' ')
removeEntities(s) ==
  IF "&" \notin Range(s) THEN s
  ELSE rewrite(s, [i \in 1..Len(s) |-> entityLen(s, i)], [i \in 1..Len(s) |-> <<" ">>])

HexChars == Range(DigitChars) \cup {"a","b","c","d","e","f","A","B","C","D","E","F"}

\* String.fromCharCode(parseInt(hex, 16)) for four hexadecimal digits: the
\* code units the model's texts use are decoded to their symbol, any other
\* one is the symbol that names the code unit
fromCharCode(hex) ==
  LET h == toLowerCase(hex)
  IN  CASE h = <<"0","0","2","0">> -> " "
        [] h = <<"0","0","3","c">> -> "<"
        [] h = <<"0","0","3","e">> -> ">"
        [] h = <<"0","0","2","6">> -> "&"
        [] h = <<"0","0","6","1">> -> "a"
        [] h = <<"0","0","0","a">> -> "LF"
        [] OTHER -> "U+" \o h[1] \o h[2] \o h[3] \o h[4]

\* replace(/\\u[0-9a-fA-F]{4}/g, match => String.fromCharCode(...))
decodeUnicodeEscapes(s) ==
  LET escapeAt(i) == /\ i + 5 <= Len(s)
                     /\ s[i] = "\\" /\ s[i + 1] = "u"
                     /\ \A k \in (i + 2)..(i + 5) : s[k] \in HexChars
  IN  IF "\\" \notin Range(s) THEN s
      ELSE rewrite(s, [i \in 1..Len(s) |-> IF escapeAt(i) THEN 6 ELSE 0],
                   [i \in 1..Len(s) |->
                      IF escapeAt(i) THEN <<fromCharCode(SubSeq(s, i + 2, i + 5))>>
                      ELSE <<>>])

\* the replacements both normalizers share: &nbsp; &amp; &lt; &gt; &quot; &#39;
decodeCommonEntities(s) ==
  LET s1 == replaceAll(s, <<"&","n","b","s","p",";">>, <<" ">>)
      s2 == replaceAll(s1, <<"&","a","m","p",";">>, <<"&">>)
      s3 == replaceAll(s2, <<"&","l","t",";">>, <<"<">>)
      s4 == replaceAll(s3, <<"&","g","t",";">>, <<">">>)
      s5 == replaceAll(s4, <<"&","q","u","o","t",";">>, <<"\"">>)
  IN  replaceAll(s5, <<"&","#","3","9",";">>, <<"'">>)

\* the literal backslash escapes: \n becomes a line feed, \t a tab, \r nothing
decodeBackslashEscapes(s) ==
  LET s1 == replaceAll(s, <<"\\","n">>, <<"LF">>)
      s2 == replaceAll(s1, <<"\\","t">>, <<"TAB">>)
  IN  replaceAll(s2, <<"\\","r">>, <<>>)

\* cleanHtml of the documentation service, applied by both getDocument
\* handlers to the fetched content
cleanHtml(text) ==
  LET s0 == removeTags(text, 1)
      s1 == decodeCommonEntities(s0)
      s2 == replaceAll(s1, <<"&","r","s","q","u","o",";">>, <<"'">>)
      s3 == replaceAll(s2, <<"&","l","s","q","u","o",";">>, <<"'">>)
      s4 == replaceAll(s3, <<"&","r","d","q","u","o",";">>, <<"\"">>)
      s5 == replaceAll(s4, <<"&","l","d","q","u","o",";">>, <<"\"">>)
      s6 == replaceAll(s5, <<"&","n","d","a","s","h",";">>, <<"-">>)
      s7 == replaceAll(s6, <<"&","m","d","a","s","h",";">>, <<"EMDASH">>)
      s8 == replaceAll(s7, <<"&","h","e","l","l","i","p",";">>, <<".",".",".">>)
      s9 == removeEntities(s8)
  IN  trim(collapseSpace(decodeBackslashEscapes(s9)))

\* DocFetcher.cleanHtml, used for snippets
fetcherCleanHtml(text) ==
  LET s0 == removeTags(text, 0)
      s1 == decodeCommonEntities(s0)
  IN  trim(decodeUnicodeEscapes(collapseSpace(decodeBackslashEscapes(s1))))

(***************************************************************************)
(* URLs.                                                                   *)
(***************************************************************************)
baseUrl == <<"https:", "/", "/", "google.github.io", "/", "adk-docs", "/">>

searchIndexUrl == baseUrl \o <<"search", "/", "search_index.json">>

\* url.startsWith('http'): the tokens of the model that begin with "http"
\* are the two schemes and the path segment "http-api"
startsWithHttp(url) == url # <<>> /\ url[1] \in {"http:", "https:", "http-api"}

\* the "." and ".." segments of a path are resolved; out is the path so far
RECURSIVE removeDotSegments(_, _)
removeDotSegments(in, out) ==
  IF in = <<>> THEN out
  ELSE LET rest == IF Len(in) > 1 /\ in[2] = "/" THEN SubSeq(in, 3, Len(in))
                   ELSE Tail(in)
       IN  IF in[1] = "." THEN removeDotSegments(rest, out)
           ELSE IF in[1] = ".."
             THEN removeDotSegments(rest,
                    IF Len(out) >= 3 THEN SubSeq(out, 1, Len(out) - 2) ELSE out)
             ELSE removeDotSegments(Tail(in), Append(out, in[1]))

\* new URL(rel, base).toString() for the base address of the site: a
\* result [ok, url]; ok is FALSE when the constructor throws.  An absolute
\* URL is scheme, "/", "/", host, path; one with no host or with the host
\* "[" is invalid.
resolveUrl(rel) ==
  IF rel # <<>> /\ rel[1] \in {"http:", "https:"}
    THEN IF Len(rel) >= 4 /\ rel[2] = "/" /\ rel[3] = "/" /\ rel[4] \notin {"/", "["}
           THEN [ok |-> TRUE,
                 url |-> SubSeq(rel, 1, 4)
                           \o removeDotSegments(SubSeq(rel, 5, Len(rel)), <<>>)
                           \o (IF Len(rel) = 4 THEN <<"/">> ELSE <<>>)]
           ELSE [ok |-> FALSE, url |-> <<>>]
  ELSE IF rel # <<>> /\ rel[1] = "/"
    THEN [ok |-> TRUE,
          url |-> SubSeq(baseUrl, 1, 4) \o <<"/">> \o removeDotSegments(Tail(rel), <<>>)]
    ELSE [ok |-> TRUE,
          url |-> SubSeq(baseUrl, 1, 4)
                    \o removeDotSegments(rel, SubSeq(baseUrl, 5, Len(baseUrl)))]

\* the title the getDocument handlers resolve to a fixed URL
hardcodedTitle ==
  <<"F","u","l","l"," ","E","x","a","m","p","l","e",":"," ",
    "C","o","d","e"," ","D","e","v","e","l","o","p","m","e","n","t"," ",
    "P","i","p","e","l","i","n","e">>

hardcodedUrl ==
  baseUrl \o <<"agents", "/", "workflow-agents", "/", "sequential-agents", "/",
               "#full-example-code-development-pipeline">>

(***************************************************************************)
(* The remote site: the bulk document feeds, the root pages and the pages  *)
(* a raw fetch can return.                                                 *)
(***************************************************************************)
\* the decimal digits of a number below 100
DecChars(i) ==
  IF i < 10 THEN <<DigitChars[i + 1]>>
  ELSE <<DigitChars[(i \div 10) + 1], DigitChars[(i % 10) + 1]>>

SmallFeed ==
  << [location |-> <<>>,
      title |-> <<"A","b">>,
      text |-> <<"a"," ","&","l","t",";"," ","b","<","i",">","c","<","/","i",">">>],
     [location |-> <<"foo","/","bar","/">>,
      title |-> <<"A","b","c">>,
      text |-> <<"x","y"," "," ","b">>],
     [location |-> <<"e","/">>,
      title |-> <<"b">>,
      text |-> <<>>],
     [location |-> baseUrl \o <<"abs","/">>,
      title |-> <<"Q",":"," ","a">>,
      text |-> <<"q","\\","n","a">>],
     [location |-> <<"http-api","/">>,
      title |-> <<"W">>,
      text |-> <<"w">>] >>

\* the location of its last document is written with a dot segment
LargeFeed ==
  [i \in 1..MaxDocs |->
     [location |-> (IF i = MaxDocs THEN <<".", "/">> ELSE <<>>)
                     \o <<"d" \o ToString(i), "/">>,
      title |-> <<"T">> \o DecChars(i),
      text |-> <<"x"," ","k">> \o DecChars(i)]]

\* the feeds a fetch of the search index may return
Feeds == {SmallFeed, LargeFeed}

\* a root page is the sequence of the anchors of its navigation region
SmallNavPage ==
  << [text |-> <<" ","H","o","m","e"," ">>, href |-> <<".">>],
     [text |-> <<"A","b">>, href |-> <<"foo","/","bar","/">>],
     [text |-> <<"G"," ","H","o","m","e">>, href |-> <<"guide","/">>],
     [text |-> <<" ","b","LF">>, href |-> baseUrl \o <<"e","/">>],
     [text |-> <<" "," ">>, href |-> <<"blank","/">>],
     [text |-> <<"A","B">>, href |-> <<"x","/">>],
     [text |-> <<"h","o","m","e">>, href |-> Undefined],
     [text |-> <<"t">>, href |-> <<"..","/","missing","/">>],
     [text |-> <<"v">>, href |-> <<"abs","/">>] >>

LargeNavPage ==
  [i \in 1..MaxNav |->
     [text |-> <<"T">> \o DecChars(i), href |-> <<"n" \o ToString(i), "/">>]]

\* a root page with an anchor whose href is no valid URL
BrokenNavPage ==
  << [text |-> <<"o","k">>, href |-> <<"x","/">>],
     [text |-> <<"b","a","d">>, href |-> <<"https:","/","/","[">>] >>

NavPages == {SmallNavPage, LargeNavPage, BrokenNavPage}

\* a page is its main content region, when it has one, and its body; the
\* regions of the model's pages hold text only
SitePages ==
  { [url |-> baseUrl \o <<"x","/">>,
     main |-> <<" ","x","y","LF","LF","LF","LF","b"," ","TAB"," ","c">>,
     body |-> <<"n","a","v"," ","x","y">>],
    [url |-> baseUrl \o <<"e","/">>,
     main |-> Undefined,
     body |-> <<"B","&","a","m","p",";","<","b",">","q","<","/","b",">">>],
    [url |-> baseUrl \o <<"abs","/">>,
     main |-> <<>>,
     body |-> <<"z">>] }
  \cup { [url |-> baseUrl \o <<"n" \o ToString(i), "/">>,
          main |-> <<"x"," ","p">> \o DecChars(i),
          body |-> <<>>] : i \in 1..MaxNav }

HasPage(url) == \E p \in SitePages : p.url = url
PageAt(url) == CHOOSE p \in SitePages : p.url = url

(***************************************************************************)
(* The state: the process, the DocFetcher singleton and the request being  *)
(* answered.                                                               *)
(***************************************************************************)
VARIABLES
  mode,             \* "http", "stdio": the entry point of the process;
                    \* "service": the documentation service under a host
  pc,               \* where main() is: "boot", "awaitInit", "serving", "exited"
  initState,        \* DocFetcher.init(): "idle", "running", "resolved", "rejected"
  idxTask,          \* initializeSearchIndex(): "idle", "pending", "done", "failed"
  navTask,          \* initializeDocStructure(): "idle", "pending", "done", "failed"
  searchIndex,      \* Null, or the references the Lunr index holds
  searchDocs,       \* Map location -> SearchDoc, in insertion order
  searchIndexCache, \* Null, or the feed as fetched
  items,            \* the DocItem objects parseMainDocStructure created
  docStructure,     \* the DocItem objects of the structure, by reference
  docMap,           \* Map lower-cased title -> DocItem object, by reference
  served,           \* whether a request was ever handled
  last              \* the request handled last and its outcome

vars ==
  <<mode, pc, initState, idxTask, navTask, searchIndex, searchDocs,
    searchIndexCache, items, docStructure, docMap, served, last>>

fetcherVars ==
  <<searchIndex, searchDocs, searchIndexCache, items, docStructure, docMap>>

(***************************************************************************)
(* JavaScript Maps, as sequences of [key, val] in insertion order.         *)
(***************************************************************************)
mapHas(m, key) == \E i \in 1..Len(m) : m[i].key = key

mapGet(m, key) == m[CHOOSE i \in 1..Len(m) : m[i].key = key].val

\* Map.prototype.set: an existing key keeps its place and takes the value
mapSet(m, key, val) ==
  IF mapHas(m, key)
    THEN [i \in 1..Len(m) |-> IF m[i].key = key THEN [key |-> key, val |-> val] ELSE m[i]]
    ELSE Append(m, [key |-> key, val |-> val])

(***************************************************************************)
(* DocFetcher: the navigation structure.                                   *)
(***************************************************************************)
Home == <<"H","o","m","e">>

\* a loop that leaves out the anchors naming the home page in any letter case
addAnchorAnyCase(acc, title, r) ==
  IF ~acc.ok THEN acc
  ELSE IF Truthy(title) /\ ~includes(toLowerCase(title), toLowerCase(Home))
    THEN IF r.ok
           THEN [ok |-> TRUE,
                 items |-> Append(acc.items,
                             [title |-> title, url |-> r.url, content |-> Undefined]),
                 structure |-> Append(acc.structure, Len(acc.items) + 1),
                 docMap |-> mapSet(acc.docMap, toLowerCase(title), Len(acc.items) + 1)]
           ELSE [acc EXCEPT !.ok = FALSE]
    ELSE acc

\* a loop that keeps the first of the entries of one lower-cased title in
\* the title map
addAnchorKeepingFirst(acc, title, r) ==
  IF ~acc.ok THEN acc
  ELSE IF Truthy(title) /\ ~includes(title, Home)
    THEN IF r.ok
           THEN [ok |-> TRUE,
                 items |-> Append(acc.items,
                             [title |-> title, url |-> r.url, content |-> Undefined]),
                 structure |-> Append(acc.structure, Len(acc.items) + 1),
                 docMap |-> IF mapHas(acc.docMap, toLowerCase(title)) THEN acc.docMap
                            ELSE mapSet(acc.docMap, toLowerCase(title),
                                        Len(acc.items) + 1)]
           ELSE [acc EXCEPT !.ok = FALSE]
    ELSE acc

\* the body of the loop of parseMainDocStructure for an anchor of the given
\* trimmed text whose href resolves to r: acc is [ok, items, structure,
\* docMap]; ok turns FALSE when new URL(...) throws, which ends the loop
\* with the objects and map entries made so far
addAnchor(acc, title, r) ==
  IF ~acc.ok THEN acc
  ELSE IF Truthy(title) /\ ~includes(title, Home)
    THEN IF r.ok
           THEN [ok |-> TRUE,
                 items |-> Append(acc.items,
                             [title |-> title, url |-> r.url, content |-> Undefined]),
                 structure |-> Append(acc.structure, Len(acc.items) + 1),
                 docMap |-> mapSet(acc.docMap, toLowerCase(title), Len(acc.items) + 1)]
           ELSE [acc EXCEPT !.ok = FALSE]
    ELSE acc

\* $element.attr('href') || ''
hrefOf(anchor) == IF Truthy(anchor.href) THEN anchor.href ELSE <<>>

parseAnchor(acc, anchor) ==
  addAnchor(acc, trim(anchor.text), resolveUrl(hrefOf(anchor)))

RECURSIVE parseAnchors(_, _)
parseAnchors(acc, anchors) ==
  IF anchors = <<>> THEN acc
  ELSE parseAnchors(parseAnchor(acc, Head(anchors)), Tail(anchors))

\* parseMainDocStructure(html) on a fetcher whose item objects and title map
\* are the given ones
parseMainDocStructure(page, heap, map) ==
  parseAnchors([ok |-> TRUE, items |-> heap, structure |-> <<>>, docMap |-> map], page)

(***************************************************************************)
(* DocFetcher: content of one document.                                    *)
(***************************************************************************)
placeholder ==
  <<"U","n","a","b","l","e"," ","t","o"," ","f","e","t","c","h"," ",
    "d","o","c","u","m","e","n","t","a","t","i","o","n"," ",
    "c","o","n","t","e","n","t",".">>

\* replace(/\n{3,}/g, '\n\n'): of a run of three line feeds or more the
\* first two stay
collapseLineBreaks(s) ==
  LET isLF(i) == i >= 1 /\ i <= Len(s) /\ s[i] = "LF"
      \* the run of line feeds that holds i has three or more
      long(i) == \/ isLF(i - 1) /\ isLF(i - 2)
                 \/ isLF(i - 1) /\ isLF(i + 1)
                 \/ isLF(i + 1) /\ isLF(i + 2)
      kept == positionsWhere(s, LAMBDA i :
                ~(isLF(i) /\ long(i) /\ isLF(i - 1) /\ isLF(i - 2)))
  IN  [k \in 1..Len(kept) |-> s[kept[k]]]

\* replace(/[ \t]+/g, ' ')
collapseBlanks(s) ==
  LET blank(i) == s[i] \in {" ", "TAB"}
      kept == positionsWhere(s, LAMBDA i : ~(blank(i) /\ i > 1 /\ blank(i - 1)))
  IN  [k \in 1..Len(kept) |-> IF blank(kept[k]) THEN " " ELSE s[kept[k]]]

cleanupContent(content) == trim(collapseBlanks(collapseLineBreaks(content)))

\* what the list loop of processContent puts before the li of index i when
\* it is at a list of the given tag: `${i + 1}. ` or the bullet
listMark(tagName, i) ==
  IF tagName = "ol" THEN DecChars(i + 1) \o <<".", " ">> ELSE <<"BULLET", " ">>

\* element.find('li'): the items of all the lists of the region, in
\* document order
RECURSIVE listItems(_)
listItems(lists) ==
  IF lists = <<>> THEN <<>> ELSE Head(lists).items \o listItems(Tail(lists))

\* what stands before the li of index i once the loop has been at every
\* list: each before() puts its text next to the item, behind the earlier ones
RECURSIVE marksBefore(_, _)
marksBefore(lists, i) ==
  IF lists = <<>> THEN <<>>
  ELSE listMark(Head(lists).tagName, i) \o marksBefore(Tail(lists), i)

\* the text of the region from the li of index i on: for each list the loop
\* was at, a mark before the item and a line feed after it
RECURSIVE textFrom(_, _, _)
textFrom(lists, found, i) ==
  IF i >= Len(found) THEN <<>>
  ELSE marksBefore(lists, i) \o found[i + 1] \o [k \in 1..Len(lists) |-> "LF"]
         \o textFrom(lists, found, i + 1)

\* processContent($, element) for a region that is a sequence of lists,
\* each [tagName, items], the items holding text only
processContent(lists) == textFrom(lists, listItems(lists), 0)

\* parseDocContent(html): the main content region when the page has one,
\* else the body; a region that holds text only is flattened to that text
parseDocContent(page) ==
  cleanupContent(IF page.main # Undefined THEN page.main ELSE page.body)

\* the raw fetches of one request fail as a pattern tells: none, the fetch
\* numbered first alone, or that one and every later one
NoFailure == [first |-> 0, rest |-> FALSE]

NetPatterns ==
  {NoFailure}
    \cup {[first |-> f, rest |-> r] : f \in 1..MaxFailAt, r \in BOOLEAN}

\* whether the k-th raw fetch of the request fails in the network
fetchFails(net, k) ==
  net.first # 0 /\ (k = net.first \/ (net.rest /\ k > net.first))

\* fetchUrl(url) as the k-th raw fetch of a request: [ok, page]
fetchUrl(url, net, k) ==
  IF ~fetchFails(net, k) /\ HasPage(url)
    THEN [ok |-> TRUE, page |-> PageAt(url)]
    ELSE [ok |-> FALSE, page |-> Undefined]

\* path.replace(this.baseUrl, '') || ''
normalizedPath(path) == replaceFirst(path, baseUrl, <<>>)

\* a fetchDocContent without the cache of the bulk feed
cacheNeverHit(docs, path) == FALSE

\* whether fetchDocContent answers from the documents of the bulk feed
cacheHit(docs, path) ==
  mapHas(docs, normalizedPath(path)) /\ Truthy(mapGet(docs, normalizedPath(path)).text)

\* a fetchDocContent that returns nothing on a failed fetch, with no
\* placeholder
fetchedContentOrNothing(url, f) ==
  IF ~f.ok THEN [text |-> <<>>, fetched |-> <<url>>]
  ELSE [text |-> parseDocContent(f.page), fetched |-> <<url>>]

\* what fetchDocContent returns when the raw fetch of url has returned f
fetchedContent(url, f) ==
  IF ~f.ok THEN [text |-> placeholder, fetched |-> <<url>>]
  ELSE [text |-> parseDocContent(f.page), fetched |-> <<url>>]

\* fetchDocContent past the cache: r is the URL the path resolves to
fetchResolved(r, net, done) ==
  IF ~r.ok THEN [text |-> placeholder, fetched |-> <<>>]
  ELSE fetchedContent(r.url, fetchUrl(r.url, net, done + 1))

\* fetchDocContent(path) after `done` raw fetches of the request:
\* [text, fetched], fetched the URLs it fetched raw.  It never throws.
fetchDocContent(path, docs, net, done) ==
  IF cacheHit(docs, path)
    THEN [text |-> mapGet(docs, normalizedPath(path)).text, fetched |-> <<>>]
    ELSE fetchResolved(resolveUrl(path), net, done)

(***************************************************************************)
(* DocFetcher: search.                                                     *)
(***************************************************************************)
\* the limits of search and fallbackSearch
IndexResultLimit == 10
TitleHitLimit == 10
ContentHitLimit == 10
ContentScanDocs == 15
\* the widths of the snippets
SnippetBefore == 100
SnippetAfter == 100
SnippetHead == 200
FallbackBefore == 100
FallbackAfter == 100

Ellipsis == <<".",".",".">>

\* a snippet that is never marked as cut at its end
snippetWindowOpenEnded(cleanText, start, end) ==
  (IF start > 0 THEN Ellipsis ELSE <<>>) \o substring(cleanText, start, end)

\* the snippet of createSnippet from offset start to offset end
snippetWindow(cleanText, start, end) ==
  (IF start > 0 THEN Ellipsis ELSE <<>>)
    \o substring(cleanText, start, end)
    \o (IF end < Len(cleanText) THEN Ellipsis ELSE <<>>)

\* a snippet whose window ends 100 characters behind the start of the match
snippetAtMatchStart(cleanText, index, n) ==
  IF index = -1
    THEN substring(cleanText, 0, SnippetHead) \o Ellipsis
    ELSE snippetWindow(cleanText, Max(0, index - SnippetBefore),
                       Min(Len(cleanText), index + SnippetAfter))

\* the snippet of createSnippet when indexOf has returned index (0-based,
\* -1 when the query does not occur) for a query of n symbols
snippetAt(cleanText, index, n) ==
  IF index = -1
    THEN substring(cleanText, 0, SnippetHead) \o Ellipsis
    ELSE snippetWindow(cleanText, Max(0, index - SnippetBefore),
                       Min(Len(cleanText), index + n + SnippetAfter))

snippetOf(cleanText, normalizedQuery) ==
  snippetAt(cleanText, indexOf(toLowerCase(cleanText), normalizedQuery) - 1,
            Len(normalizedQuery))

\* createSnippet(text, query)
createSnippet(text, query) ==
  IF ~Truthy(text) THEN <<>>
  ELSE snippetOf(fetcherCleanHtml(text), toLowerCase(query))

\* the title loop of fallbackSearch over the entries of the title map from
\* entry i on: the items whose title contains the query, the loop ending
\* once the limit is reached
RECURSIVE titleScan(_, _, _, _, _)
titleHits(map, heap, normalizedQuery, i, results) ==
  IF Len(results) >= TitleHitLimit THEN results
  ELSE titleScan(map, heap, normalizedQuery, i + 1, results)

titleScan(map, heap, normalizedQuery, i, results) ==
  IF i > Len(map) THEN results
  ELSE titleHits(map, heap, normalizedQuery, i,
                 IF includes(toLowerCase(heap[map[i].val].title), normalizedQuery)
                   THEN Append(results, heap[map[i].val]) ELSE results)

\* a slice that cuts nothing off
sliceNothing(s, n) == s

\* Array.prototype.slice(0, n)
slice(s, n) == SubSeq(s, 1, Min(n, Len(s)))

\* the snippet of the content loop of fallbackSearch around the match at
\* matchIndex (0-based) of a query of n symbols
fallbackSnippet(content, matchIndex, n) ==
  substring(content, Max(0, matchIndex - FallbackBefore),
            Min(Len(content), matchIndex + n + FallbackAfter))

\* one result of the content loop of fallbackSearch: a copy of the document
\* with a snippet around the first match as its content
contentHit(doc, normalizedQuery) ==
  [doc EXCEPT !.content =
     fetcherCleanHtml(
       fallbackSnippet(doc.content,
                       indexOf(toLowerCase(doc.content), normalizedQuery) - 1,
                       Len(normalizedQuery)))
       \o Ellipsis]

\* "if (!doc.content) doc.content = await this.fetchDocContent(doc.url)":
\* the document after it and the URLs fetched raw; got is what
\* fetchDocContent returns when called
ensureContent(old, got) ==
  IF ~Truthy(old.content)
    THEN [doc |-> [old EXCEPT !.content = got.text], fetched |-> got.fetched]
    ELSE [doc |-> old, fetched |-> <<>>]

\* a content loop that writes the snippet into the shared object instead of
\* a copy of it
scanDocumentInPlace(acc, ref, w, hit, normalizedQuery) ==
  [items |-> [acc.items EXCEPT
                ![ref] = IF hit THEN contentHit(w.doc, normalizedQuery) ELSE w.doc],
   results |-> IF hit THEN Append(acc.results, contentHit(w.doc, normalizedQuery))
               ELSE acc.results,
   fetched |-> acc.fetched \o w.fetched,
   stopped |-> hit /\ Len(acc.results) + 1 >= ContentHitLimit]

\* the rest of the body of the content loop for the document object ref,
\* which is w.doc now: acc is [items, results, fetched, stopped]; the shared
\* object keeps the content, and the loop stops at the limit
scanDocument(acc, ref, w, hit, normalizedQuery) ==
  [items |-> [acc.items EXCEPT ![ref] = w.doc],
   results |-> IF hit THEN Append(acc.results, contentHit(w.doc, normalizedQuery))
               ELSE acc.results,
   fetched |-> acc.fetched \o w.fetched,
   stopped |-> hit /\ Len(acc.results) + 1 >= ContentHitLimit]

scanStep(acc, ref, w, normalizedQuery) ==
  scanDocument(acc, ref, w, includes(toLowerCase(w.doc.content), normalizedQuery),
               normalizedQuery)

\* the content loop of fallbackSearch over documentsToSearch from entry i on
RECURSIVE contentScan(_, _, _, _, _, _)
contentScanOn(documentsToSearch, docs, normalizedQuery, net, i, acc) ==
  IF acc.stopped THEN acc
  ELSE contentScan(documentsToSearch, docs, normalizedQuery, net, i + 1, acc)

contentScan(documentsToSearch, docs, normalizedQuery, net, i, acc) ==
  IF i > Len(documentsToSearch) THEN acc
  ELSE contentScanOn(documentsToSearch, docs, normalizedQuery, net, i,
         scanStep(acc, documentsToSearch[i],
                  ensureContent(acc.items[documentsToSearch[i]],
                                fetchDocContent(acc.items[documentsToSearch[i]].url,
                                                docs, net, Len(acc.fetched))),
                  normalizedQuery))

\* a fallbackSearch whose content loop runs over the whole structure
fallbackOverWholeStructure(st, normalizedQuery, net, byTitle) ==
  IF Len(byTitle) = 0
    THEN contentScan(st.docStructure, st.searchDocs, normalizedQuery, net, 1,
                     [items |-> st.items, results |-> <<>>, fetched |-> <<>>,
                      stopped |-> FALSE])
    ELSE [items |-> st.items, results |-> byTitle, fetched |-> <<>>,
          stopped |-> FALSE]

\* fallbackSearch past the title loop, which returned byTitle
fallbackAfterTitles(st, normalizedQuery, net, byTitle) ==
  IF Len(byTitle) = 0
    THEN contentScan(slice(st.docStructure, ContentScanDocs), st.searchDocs,
                     normalizedQuery, net, 1,
                     [items |-> st.items, results |-> <<>>, fetched |-> <<>>,
                      stopped |-> FALSE])
    ELSE [items |-> st.items, results |-> byTitle, fetched |-> <<>>,
          stopped |-> FALSE]

\* fallbackSearch(query) on the fetcher state st = [searchIndex, searchDocs,
\* items, docStructure, docMap]: [results, items, fetched, stopped].  It
\* never throws.
fallbackSearch(st, query, net) ==
  fallbackAfterTitles(st, toLowerCase(query), net,
                      titleScan(st.docMap, st.items, toLowerCase(query), 1, <<>>))

\* the URL the fetcher gives a SearchDoc location
locationUrl(location) ==
  IF ~startsWithHttp(location) THEN resolveUrl(location).url ELSE location

\* the DocItem search makes of the document of one index result
docResult(doc, query) ==
  [title |-> doc.title, url |-> locationUrl(doc.location),
   content |-> createSnippet(doc.text, query)]

resultItem(docs, ref, query) == docResult(mapGet(docs, ref), query)

\* the results search returns when the index query returned searchResults:
\* the first results, without those whose reference is no key of searchDocs
\* (which the code maps to null and filters out)
indexResults(docs, searchResults, query) ==
  LET top == slice(searchResults, IndexResultLimit)
      known == SelectSeq(top, LAMBDA ref : mapHas(docs, ref))
  IN  [i \in 1..Len(known) |-> resultItem(docs, known[i], query)]

\* whether search answers with fallbackSearch: the index was never built, or
\* the index query threw
searchFallsBack(st, lunr) == st.searchIndex = Null \/ lunr.throws

\* what search returns when it answers with what fallbackSearch returned
viaFallback(fb) ==
  [threw |-> FALSE, via |-> "fallback", results |-> fb.results,
   items |-> fb.items, fetched |-> fb.fetched]

\* a search without the catch block: a throw of the index query reaches the
\* caller
searchPropagating(st, query, lunr, net) ==
  IF st.searchIndex = Null
    THEN viaFallback(fallbackSearch(st, query, net))
  ELSE IF lunr.throws
    THEN [threw |-> TRUE, via |-> "index", results |-> <<>>,
          items |-> st.items, fetched |-> <<>>]
  ELSE [threw |-> FALSE, via |-> "index",
        results |-> indexResults(st.searchDocs, lunr.refs, query),
        items |-> st.items, fetched |-> <<>>]

\* a search that also falls back when the index query returns nothing
searchFallingBackOnEmpty(st, query, lunr, net) ==
  IF searchFallsBack(st, lunr) \/ lunr.refs = <<>>
    THEN viaFallback(fallbackSearch(st, query, net))
    ELSE [threw |-> FALSE, via |-> "index",
          results |-> indexResults(st.searchDocs, lunr.refs, query),
          items |-> st.items, fetched |-> <<>>]

\* search(query): lunr is what the index query does, [throws, refs].
\* [threw, via, results, items, fetched]
search(st, query, lunr, net) ==
  IF searchFallsBack(st, lunr)
    THEN viaFallback(fallbackSearch(st, query, net))
    ELSE [threw |-> FALSE, via |-> "index",
          results |-> indexResults(st.searchDocs, lunr.refs, query),
          items |-> st.items, fetched |-> <<>>]

(***************************************************************************)
(* DocFetcher: lookup of a document by its title.                          *)
(***************************************************************************)
\* a loop of the catch block that takes the first document whatever its title
firstDocument(docs, title, i) ==
  IF i > Len(docs) THEN [found |-> FALSE, title |-> Undefined, url |-> Undefined]
  ELSE [found |-> TRUE, title |-> docs[i].val.title, url |-> locationUrl(docs[i].key)]

\* the loop of the catch block of getDocumentByTitle: the first document,
\* in the order of searchDocs, whose title contains the requested one
RECURSIVE simpleTitleSearch(_, _, _)
simpleTitleSearch(docs, title, i) ==
  IF i > Len(docs) THEN [found |-> FALSE, title |-> Undefined, url |-> Undefined]
  ELSE IF includes(toLowerCase(docs[i].val.title), toLowerCase(title))
    THEN [found |-> TRUE, title |-> docs[i].val.title, url |-> locationUrl(docs[i].key)]
    ELSE simpleTitleSearch(docs, title, i + 1)

\* what getDocumentByTitle returns for a document found in the given way
foundDoc(title, url, via) ==
  [found |-> TRUE, title |-> title, url |-> url, via |-> via]

noDoc == [found |-> FALSE, title |-> Undefined, url |-> Undefined, via |-> "none"]

\* the outcome of the catch block, whose loop returned r
afterTitleScan(r) ==
  IF r.found THEN foundDoc(r.title, r.url, "titleScan") ELSE noDoc

\* the SearchDoc of the first result of the title query
fromTitleIndex(doc) == foundDoc(doc.title, locationUrl(doc.location), "titleIndex")

\* the DocItem the title map holds for the title
fromTitleMap(exactMatch) == foundDoc(exactMatch.title, exactMatch.url, "titleMap")

\* getDocumentByTitle(title): lunr is what the title query of the index
\* does.  [found, title, url, via]
getDocumentByTitle(st, title, lunr) ==
  IF mapHas(st.docMap, toLowerCase(title))
    THEN fromTitleMap(st.items[mapGet(st.docMap, toLowerCase(title))])
  ELSE IF st.searchIndex = Null THEN noDoc
  ELSE IF lunr.throws
    THEN afterTitleScan(simpleTitleSearch(st.searchDocs, title, 1))
  ELSE IF Len(lunr.refs) > 0 /\ mapHas(st.searchDocs, lunr.refs[1])
    THEN fromTitleIndex(mapGet(st.searchDocs, lunr.refs[1]))
  ELSE noDoc

(***************************************************************************)
(* The tool handlers.                                                      *)
(***************************************************************************)
NoDoc == [title |-> Undefined, content |-> Undefined, url |-> Undefined]
NoQuery == [throws |-> FALSE, refs |-> <<>>]

\* what a handler did: the request, "ok" with the value returned or "error"
\* with the error thrown, and the calls it made on the way; indexed tells
\* whether the search index was there when the handler ran
NoRequest ==
  [op |-> "none", impl |-> "none", query |-> Undefined, path |-> Undefined,
   title |-> Undefined, status |-> "none", error |-> "none",
   errorTitle |-> Undefined, results |-> <<>>, doc |-> NoDoc, fetched |-> <<>>,
   searches |-> <<>>, via |-> "none", lunr |-> NoQuery, lunrTitle |-> NoQuery,
   consulted |-> <<>>, resolvedBy |-> "none", indexed |-> FALSE,
   failed |-> FALSE]

\* the fields a handler returns to its caller
publicItem(item) == [title |-> item.title, url |-> item.url]

\* getDocStructureHandler(), and getDocStructure.handler of the service
getDocStructureHandler(st, impl) ==
  [NoRequest EXCEPT
     !.op = "getDocStructure", !.impl = impl, !.status = "ok",
     !.results = [i \in 1..Len(st.docStructure) |->
                    publicItem(st.items[st.docStructure[i]])]]

\* result.content || ''
contentOrEmpty(item) ==
  [title |-> item.title, url |-> item.url,
   content |-> IF Truthy(item.content) THEN item.content ELSE <<>>]

\* the results as the handlers return them
publicResults(results) == [i \in 1..Len(results) |-> contentOrEmpty(results[i])]

\* the index query a request made, NoQuery when there is no index to query
queryMade(st, lunr) == IF st.searchIndex = Null THEN NoQuery ELSE lunr

\* what searchDocsHandler answers when search has returned r
searchOutcome(st, impl, query, lunr, r) ==
  [out |->
     [NoRequest EXCEPT
        !.op = "searchDocs", !.impl = impl, !.query = query,
        !.status = IF r.threw THEN "error" ELSE "ok",
        !.error = IF r.threw THEN "search" ELSE "none",
        !.results = publicResults(r.results),
        !.fetched = r.fetched, !.searches = <<query>>, !.via = r.via,
        !.lunr = queryMade(st, lunr), !.indexed = st.searchIndex # Null],
   items |-> r.items]

\* searchDocsHandler(query), and searchDocs.handler of the service: the
\* outcome and the item objects after it
searchDocsHandler(st, impl, query, lunr, net) ==
  searchOutcome(st, impl, query, lunr, search(st, query, lunr, net))

\* path.split('/').pop() || 'Document'
RECURSIVE lastSegment(_)
lastSegment(path) ==
  IF path = <<>> \/ path[Len(path)] = "/" THEN <<>>
  ELSE Append(lastSegment(SubSeq(path, 1, Len(path) - 1)), path[Len(path)])

\* a title that is the whole path
pathAsTitle(path) == IF path # <<>> THEN path ELSE <<"Document">>

pathTitle(path) == IF lastSegment(path) # <<>> THEN lastSegment(path) ELSE <<"Document">>

\* the title test of getDocumentHandler on one search result
toolsTitleMatch(docTitle, title) ==
  \/ toLowerCase(docTitle) = toLowerCase(title)
  \/ includes(toLowerCase(docTitle), toLowerCase(title))

\* the title test of getDocument.handler of the service on one search result
serviceTitleMatch(docTitle, title) ==
  /\ Truthy(docTitle)
  /\ \/ docTitle = title
     \/ toLowerCase(docTitle) = toLowerCase(title)
     \/ includes(toLowerCase(docTitle), toLowerCase(title))
     \/ includes(toLowerCase(title), toLowerCase(docTitle))

titleMatch(impl, docTitle, title) ==
  IF impl = "tools" THEN toolsTitleMatch(docTitle, title)
  ELSE serviceTitleMatch(docTitle, title)

\* Array.prototype.find over the search results: the position of the first
\* result whose title passes the test, 0 when none does
firstMatch(impl, results, title) ==
  IF \E i \in 1..Len(results) : titleMatch(impl, results[i].title, title)
    THEN CHOOSE i \in 1..Len(results) :
           /\ titleMatch(impl, results[i].title, title)
           /\ \A j \in 1..(i - 1) : ~titleMatch(impl, results[j].title, title)
    ELSE 0

\* a validation that lets a request with both parameters through
toolsValidationOfNeither(path, title) ==
  IF ~Truthy(path) /\ ~Truthy(title) THEN "exactlyOne" ELSE "none"

\* the validation of the parameters: the error thrown, "none" when valid
toolsValidation(path, title) ==
  IF (~Truthy(path) /\ ~Truthy(title)) \/ (Truthy(path) /\ Truthy(title))
    THEN "exactlyOne" ELSE "none"

serviceValidation(path, title) ==
  IF ~Truthy(path) /\ ~Truthy(title) THEN "required" ELSE "none"

validation(impl, path, title) ==
  IF impl = "tools" THEN toolsValidation(path, title)
  ELSE serviceValidation(path, title)

\* the resolution of a title by the lookup by title, which returned byTitle
resolvedByLookup(byTitle) ==
  [found |-> byTitle.found, title |-> byTitle.title, url |-> byTitle.url,
   by |-> byTitle.via,
   consulted |-> <<"search", "hardcoded", "getDocumentByTitle">>]

\* a resolution that looks the title up in the title map before anything else
resolveByMapFirst(st, impl, title, results, m, lunrTitle) ==
  IF impl = "tools" /\ mapHas(st.docMap, toLowerCase(title))
    THEN resolvedByLookup(getDocumentByTitle(st, title, lunrTitle))
  ELSE IF m # 0
    THEN [found |-> TRUE, title |-> results[m].title, url |-> results[m].url,
          by |-> "search", consulted |-> <<"search">>]
  ELSE IF title = hardcodedTitle
    THEN [found |-> TRUE, title |-> title, url |-> hardcodedUrl,
          by |-> "hardcoded", consulted |-> <<"search", "hardcoded">>]
  ELSE IF impl = "tools"
    THEN resolvedByLookup(getDocumentByTitle(st, title, lunrTitle))
  ELSE [found |-> FALSE, title |-> Undefined, url |-> Undefined, by |-> "none",
        consulted |-> <<"search", "hardcoded">>]

\* the resolution of a title when the find over the search results has
\* returned result m (0: none)
resolveAfterFind(st, impl, title, results, m, lunrTitle) ==
  IF m # 0
    THEN [found |-> TRUE, title |-> results[m].title, url |-> results[m].url,
          by |-> "search", consulted |-> <<"search">>]
  ELSE IF title = hardcodedTitle
    THEN [found |-> TRUE, title |-> title, url |-> hardcodedUrl,
          by |-> "hardcoded", consulted |-> <<"search", "hardcoded">>]
  ELSE IF impl = "tools"
    THEN resolvedByLookup(getDocumentByTitle(st, title, lunrTitle))
  ELSE [found |-> FALSE, title |-> Undefined, url |-> Undefined, by |-> "none",
        consulted |-> <<"search", "hardcoded">>]

\* the resolution of a title: the search and the match among its results
\* come first, then the fixed title, then (shared tools only) the lookup by
\* title.  [found, title, url, by, consulted]
resolveTitle(st, impl, title, results, lunrTitle) ==
  resolveAfterFind(st, impl, title, results, firstMatch(impl, results, title),
                   lunrTitle)

\* whether the handler gets as far as the lookup by title
needsTitleLookup(impl, title, results) ==
  impl = "tools" /\ firstMatch(impl, results, title) = 0 /\ title # hardcodedTitle

\* the request as the handler received it
documentRequest(st, impl, path, title) ==
  [NoRequest EXCEPT
     !.op = "getDocument", !.impl = impl, !.path = path, !.title = title,
     !.indexed = st.searchIndex # Null]

\* the handler's answer with the document at docUrl, whose content
\* fetchDocContent returned as content, after `done` raw fetches
answered(req, docTitle, docUrl, content, done) ==
  [req EXCEPT
     !.status = "ok",
     !.doc = [title |-> docTitle, content |-> cleanHtml(content.text),
              url |-> docUrl],
     !.fetched = done \o content.fetched]

\* the handler past a search that returned sr and a resolution res of the
\* title; searched is the request with what the search did
answerByTitle(st, title, sr, res, searched, net) ==
  IF ~res.found
    THEN [out |-> [searched EXCEPT !.status = "error", !.error = "notFound",
                                   !.errorTitle = title, !.fetched = sr.fetched],
          items |-> sr.items]
    ELSE [out |-> answered(searched, res.title, res.url,
                           fetchDocContent(res.url, st.searchDocs, net,
                                           Len(sr.fetched)),
                           sr.fetched),
          items |-> sr.items]

\* the request with the search it made and the sources it consulted
searchedRequest(st, impl, path, title, sr, res, lunr, lunrTitle) ==
  [documentRequest(st, impl, path, title) EXCEPT
     !.searches = <<title>>, !.via = sr.via,
     !.lunr = queryMade(st, lunr),
     !.lunrTitle = IF res.by # "titleMap"
                      /\ "getDocumentByTitle" \in Range(res.consulted)
                      /\ st.searchIndex # Null
                    THEN lunrTitle ELSE NoQuery,
     !.results = publicResults(sr.results),
     !.consulted = res.consulted, !.resolvedBy = res.by]

\* the title branch of the handler past the search
afterResolve(st, impl, path, title, sr, res, lunr, net, lunrTitle) ==
  answerByTitle(st, title, sr, res,
                searchedRequest(st, impl, path, title, sr, res, lunr, lunrTitle),
                net)

\* getDocumentHandler(params) of the shared tools (impl = "tools") and
\* getDocument.handler of the service (impl = "service"), sr being what its
\* call of search returns (read only when the title is given): the outcome
\* and the item objects after it
getDocumentAfterSearch(st, impl, path, title, sr, lunr, net, lunrTitle) ==
  IF validation(impl, path, title) # "none"
    THEN [out |-> [documentRequest(st, impl, path, title) EXCEPT
                     !.status = "error", !.error = validation(impl, path, title)],
          items |-> st.items]
  ELSE IF Truthy(title)
    THEN IF sr.threw
           THEN [out |-> [documentRequest(st, impl, path, title) EXCEPT
                            !.status = "error", !.error = "search",
                            !.searches = <<title>>],
                 items |-> sr.items]
           ELSE afterResolve(st, impl, path, title, sr,
                             resolveTitle(st, impl, title, sr.results, lunrTitle),
                             lunr, net, lunrTitle)
  ELSE [out |-> answered([documentRequest(st, impl, path, title) EXCEPT
                            !.resolvedBy = "path"],
                         pathTitle(path), path,
                         fetchDocContent(path, st.searchDocs, net, 0), <<>>),
        items |-> st.items]

getDocumentHandler(st, impl, path, title, lunr, net, lunrTitle) ==
  getDocumentAfterSearch(st, impl, path, title, search(st, title, lunr, net),
                         lunr, net, lunrTitle)

(***************************************************************************)
(* The environment: the sites, the requests and what the index answers.    *)
(***************************************************************************)
Modes == {"http", "stdio", "service"}
Sites == {"small", "large", "broken"}

FeedOf(s) == IF s = "large" THEN LargeFeed ELSE SmallFeed

NavPageOf(s) ==
  CASE s = "small" -> SmallNavPage
    [] s = "large" -> LargeNavPage
    [] s = "broken" -> BrokenNavPage

Queries ==
  { <<"b">>, <<"x">>, <<"t">>, <<"z","z">>, <<>> }

Paths ==
  { <<"foo","/","bar","/">>, baseUrl \o <<"foo","/","bar","/">>,
    <<"e","/">>, baseUrl, <<"x","/">>, <<"nowhere">>, <<"https:","/","/","[">>,
    <<"d1","/">> }

Titles ==
  { <<"A","b">>, <<"a","b","c">>, <<"A","b","c","d">>, <<"b">>, <<"z","z">>,
    hardcodedTitle, <<"T","1">> }

\* a parameter that is not given: undefined, null or the empty string
Absent == {Undefined, Null, <<>>}

\* the parameters of getDocument: a path alone, a title alone, neither, and
\* some pairs of both
DocumentRequests ==
  {[path |-> p, title |-> t] : p \in Paths, t \in {Undefined}}
    \cup {[path |-> p, title |-> t] : p \in {Undefined}, t \in Titles}
    \cup {[path |-> p, title |-> t] :
            p \in {<<"e","/">>}, t \in {Null, <<>>, <<"A","b">>, <<"z","z">>}}
    \cup {[path |-> p, title |-> t] :
            p \in {Null, <<>>, <<"x","/">>}, t \in {<<"b">>}}
    \cup {[path |-> p, title |-> t] : p \in Absent, t \in Absent}

reverse(s) == [i \in 1..Len(s) |-> s[Len(s) + 1 - i]]

\* the rank orders an index query may put the references in: the order of
\* the feed and its reversal
RankOrders(refs) == {refs, reverse(refs)}

HitCounts(n) == {k \in 0..n : k <= MaxHits \/ k >= n - 1}

\* what Index.search may do on an index of the given references: throw, or
\* return some of them in some rank order
LunrOutcomes(index) ==
  IF index = Null THEN {NoQuery}
  ELSE {[throws |-> TRUE, refs |-> <<>>]}
         \cup {[throws |-> FALSE, refs |-> SubSeq(o, 1, k)] :
                 o \in RankOrders(index), k \in HitCounts(Len(index))}

\* the same for the title query, of whose result only the first reference
\* is read: it throws, finds nothing, or ranks the first or the last
\* document of the feed first
TitleOutcomes(index) ==
  IF index = Null THEN {NoQuery}
  ELSE {[throws |-> TRUE, refs |-> <<>>], NoQuery}
         \cup {[throws |-> FALSE, refs |-> <<index[i]>>] : i \in {1, Len(index)}}

(***************************************************************************)
(* Start-up.                                                               *)
(***************************************************************************)
VARIABLE site       \* the remote site the process reads
VARIABLE flights    \* the searches suspended at an await, one per client
VARIABLE calc       \* a call of one of the pure helpers: its arguments and result
VARIABLE http       \* the HTTP server's session registries, the transports it
                    \* created and the HTTP request it handles

allVars == <<vars, site, flights, calc, http>>

\* an absent session id: undefined or the empty string, both falsy
NoSessionId == ""

\* no HTTP request is being handled
NoHttpRequest ==
  [route |-> "none", method |-> "none", sessionId |-> NoSessionId,
   initialize |-> FALSE, status |-> "none", code |-> "none", to |-> "none",
   created |-> <<>>]

\* const transports = { sse: {}, streamable: {} }, and no transport created
NoSessions ==
  [sse |-> <<>>, streamable |-> <<>>, made |-> <<>>, req |-> NoHttpRequest]

\* no helper is called
NoCalc == [fn |-> "none", text |-> <<>>, query |-> <<>>, region |-> <<>>,
          out |-> <<>>, again |-> <<>>, stage |-> "none"]

\* the clients whose search requests may be in flight at the same time
Clients == {"c1", "c2"}

\* a search of one client: the query, what the network does to its fetches,
\* the entry of documentsToSearch whose fetch it awaits, its results so far,
\* the raw fetches it made, and (for comparison) what search would have
\* returned had it run to its end when it was called
NoFlight ==
  [status |-> "idle", query |-> <<>>, net |-> NoFailure, at |-> 0,
   results |-> <<>>, fetches |-> 0, alone |-> <<>>]

fetcher ==
  [searchIndex |-> searchIndex, searchDocs |-> searchDocs, items |-> items,
   docStructure |-> docStructure, docMap |-> docMap]

\* the process as its modules are loaded: new DocFetcher() and no request
Loaded ==
  /\ mode \in Modes
  /\ site \in Sites
  /\ pc = IF mode = "service" THEN "hosted" ELSE "boot"
  /\ initState = "idle"
  /\ idxTask = "idle"
  /\ navTask = "idle"
  /\ searchIndex = Null
  /\ searchDocs = <<>>
  /\ searchIndexCache = Null
  /\ items = <<>>
  /\ docStructure = <<>>
  /\ docMap = <<>>
  /\ served = FALSE
  /\ last = NoRequest
  /\ flights = [c \in Clients |-> NoFlight]
  /\ http = NoSessions

Init == Loaded /\ calc = NoCalc

\* main() calls docFetcher.init(), which starts both builds
StartInit ==
  /\ pc \in {"boot", "hosted"}
  /\ initState = "idle"
  /\ initState' = "running"
  /\ idxTask' = "pending"
  /\ navTask' = "pending"
  /\ pc' = IF pc = "boot" THEN "awaitInit" ELSE pc
  /\ UNCHANGED <<http, calc, flights, mode, site, fetcherVars, served, last>>

\* a map building that leaves out the documents without text
RECURSIVE docsWithText(_, _)
docsWithText(feed, map) ==
  IF feed = <<>> THEN map
  ELSE docsWithText(Tail(feed),
                    IF Head(feed).text # <<>>
                      THEN mapSet(map, Head(feed).location, Head(feed)) ELSE map)

\* Map building of initializeSearchIndex: one set per document
RECURSIVE docsByLocation(_, _)
docsByLocation(feed, map) ==
  IF feed = <<>> THEN map
  ELSE docsByLocation(Tail(feed), mapSet(map, Head(feed).location, Head(feed)))

\* initializeSearchIndex() gets the feed and builds the index and the map.
\* A handler being one step here, a build comes before a request or after
\* its answer, not between the two.
IndexBuilt ==
  /\ idxTask = "pending"
  /\ pc # "exited"
  /\ last.op = "none"
  /\ idxTask' = "done"
  /\ searchIndexCache' = FeedOf(site)
  /\ searchIndex' = [i \in 1..Len(FeedOf(site)) |-> FeedOf(site)[i].location]
  /\ searchDocs' = docsByLocation(FeedOf(site), searchDocs)
  /\ UNCHANGED <<http, calc, flights, mode, site, pc, initState, navTask, items, docStructure, docMap,
                 served, last>>

\* initializeSearchIndex() fails: the fetch of the feed fails
IndexFailed ==
  /\ idxTask = "pending"
  /\ pc # "exited"
  /\ idxTask' = "failed"
  /\ UNCHANGED <<http, calc, flights, mode, site, pc, initState, navTask, fetcherVars, served, last>>

\* initializeDocStructure() gets the root page and parses it; a parse that
\* throws leaves the objects and map entries made before it threw
NavBuilt ==
  /\ navTask = "pending"
  /\ pc # "exited"
  /\ last.op = "none"
  /\ LET r == parseMainDocStructure(NavPageOf(site), items, docMap)
     IN  /\ items' = r.items
         /\ docMap' = r.docMap
         /\ docStructure' = IF r.ok THEN r.structure ELSE docStructure
         /\ navTask' = IF r.ok THEN "done" ELSE "failed"
  /\ UNCHANGED <<http, calc, flights, mode, site, pc, initState, idxTask, searchIndex, searchDocs,
                 searchIndexCache, served, last>>

\* initializeDocStructure() fails: the fetch of the root page fails
NavFailed ==
  /\ navTask = "pending"
  /\ pc # "exited"
  /\ navTask' = "failed"
  /\ UNCHANGED <<http, calc, flights, mode, site, pc, initState, idxTask, fetcherVars, served, last>>

\* a Promise.race in the place of Promise.all: one finished build is enough
anyBuildDone == idxTask = "done" \/ navTask = "done"

\* Promise.all of init(): fulfilled when both builds are done, rejected as
\* soon as one has failed
initFulfilled == idxTask = "done" /\ navTask = "done"
initRejected == idxTask = "failed" \/ navTask = "failed"

\* init() resolves; main() goes on to listen (HTTP) or to register the tools
\* and connect the transport (stdio)
InitResolve ==
  /\ initState = "running"
  /\ initFulfilled
  /\ initState' = "resolved"
  /\ pc' = IF pc = "awaitInit" THEN "serving" ELSE pc
  /\ UNCHANGED <<http, calc, flights, mode, site, idxTask, navTask, fetcherVars, served, last>>

\* init() rejects; main() ends the process with process.exit(1)
InitReject ==
  /\ initState = "running"
  /\ initRejected
  /\ initState' = "rejected"
  /\ pc' = IF pc = "awaitInit" THEN "exited" ELSE pc
  /\ UNCHANGED <<http, calc, flights, mode, site, idxTask, navTask, fetcherVars, served, last>>

(***************************************************************************)
(* Requests.                                                               *)
(***************************************************************************)
\* the handlers the process answers with
implOf(m) == IF m = "service" THEN "service" ELSE "tools"

\* the process takes requests: it listens or is connected, or its host calls
accepting == pc \in {"serving", "hosted"}

\* a handler returns r: its outcome, and the item objects as it left them;
\* failed records whether the network failed a raw fetch of the request
Answer(r, net) ==
  /\ last' = [r.out EXCEPT
                !.failed = \E k \in 1..Len(r.out.fetched) : fetchFails(net, k)]
  /\ items' = r.items

\* whether the request is valid and names a title, so that the handler searches
searchesByTitle(impl, req) ==
  validation(impl, req.path, req.title) = "none" /\ Truthy(req.title)

GetDocStructure ==
  /\ accepting
  /\ last.op = "none"
  /\ last' = getDocStructureHandler(fetcher, implOf(mode))
  /\ served' = TRUE
  /\ UNCHANGED <<http, calc, flights, mode, site, pc, initState, idxTask, navTask, fetcherVars>>

SearchDocs ==
  /\ accepting
  /\ last.op = "none"
  /\ \E query \in Queries, lunr \in LunrOutcomes(searchIndex) :
       \E net \in (IF searchFallsBack(fetcher, lunr) THEN NetPatterns ELSE {NoFailure}) :
         Answer(searchDocsHandler(fetcher, implOf(mode), query, lunr, net), net)
  /\ served' = TRUE
  /\ UNCHANGED <<http, calc, flights, mode, site, pc, initState, idxTask, navTask, searchIndex,
                 searchDocs, searchIndexCache, docStructure, docMap>>

\* the handler of getDocument on a request whose search returns sr
AnswerDocument(impl, req, lunr, net, sr) ==
  \E lunrTitle \in
      (IF searchesByTitle(impl, req) /\ needsTitleLookup(impl, req.title, sr.results)
         THEN TitleOutcomes(searchIndex) ELSE {NoQuery}) :
    Answer(getDocumentAfterSearch(fetcher, impl, req.path, req.title,
                                  sr, lunr, net, lunrTitle), net)

GetDocument ==
  /\ accepting
  /\ last.op = "none"
  /\ \E req \in DocumentRequests :
       \E lunr \in (IF searchesByTitle(implOf(mode), req)
                      THEN LunrOutcomes(searchIndex) ELSE {NoQuery}),
          net \in (IF validation(implOf(mode), req.path, req.title) = "none"
                     THEN NetPatterns ELSE {NoFailure}) :
         AnswerDocument(implOf(mode), req, lunr, net,
                        search(fetcher, req.title, lunr, net))
  /\ served' = TRUE
  /\ UNCHANGED <<http, calc, flights, mode, site, pc, initState, idxTask, navTask, searchIndex,
                 searchDocs, searchIndexCache, docStructure, docMap>>

\* the answer goes back to the caller
Respond ==
  /\ last.op # "none"
  /\ last' = NoRequest
  /\ UNCHANGED <<http, calc, flights, mode, site, pc, initState, idxTask, navTask, fetcherVars, served>>

Next ==
  \/ StartInit
  \/ IndexBuilt
  \/ IndexFailed
  \/ NavBuilt
  \/ NavFailed
  \/ InitResolve
  \/ InitReject
  \/ GetDocStructure
  \/ SearchDocs
  \/ GetDocument
  \/ Respond

Spec == Init /\ [][Next]_allVars

(***************************************************************************)
(* Searches in flight: the same search and fallbackSearch, one step per    *)
(* stretch of code between two awaits.                                     *)
(***************************************************************************)
\* the content loop of fallbackSearch from entry i on, run to its next
\* await (the fetch of a document without content) or to its return
RECURSIVE scanToAwait(_, _, _, _, _)
\* the loop body below the await, for entry i whose content is there
scanFetched(documentsToSearch, heap, normalizedQuery, i, results) ==
  IF ~includes(toLowerCase(heap[documentsToSearch[i]].content), normalizedQuery)
    THEN scanToAwait(documentsToSearch, heap, normalizedQuery, i + 1, results)
  ELSE IF Len(results) + 1 >= ContentHitLimit
    THEN [status |-> "done", at |-> 0,
          results |-> Append(results,
                             contentHit(heap[documentsToSearch[i]], normalizedQuery))]
  ELSE scanToAwait(documentsToSearch, heap, normalizedQuery, i + 1,
                   Append(results,
                          contentHit(heap[documentsToSearch[i]], normalizedQuery)))

scanToAwait(documentsToSearch, heap, normalizedQuery, i, results) ==
  IF i > Len(documentsToSearch)
    THEN [status |-> "done", at |-> 0, results |-> results]
  ELSE IF ~Truthy(heap[documentsToSearch[i]].content)
    THEN [status |-> "awaiting", at |-> i, results |-> results]
  ELSE scanFetched(documentsToSearch, heap, normalizedQuery, i, results)

\* search up to its first await: the index query, and when it throws the
\* title loop of fallbackSearch and the content loop up to its first fetch
searchToAwait(st, query, lunr) ==
  LET byTitle == titleScan(st.docMap, st.items, toLowerCase(query), 1, <<>>)
  IN  IF ~searchFallsBack(st, lunr)
        THEN [status |-> "done", at |-> 0,
              results |-> indexResults(st.searchDocs, lunr.refs, query)]
      ELSE IF Len(byTitle) > 0
        THEN [status |-> "done", at |-> 0, results |-> byTitle]
      ELSE scanToAwait(slice(st.docStructure, ContentScanDocs), st.items,
                       toLowerCase(query), 1, <<>>)

\* a client calls search after init resolved: the call runs to its first
\* await, or to its end when there is none on its way
Issue(c) ==
  /\ accepting
  /\ initState = "resolved"
  /\ flights[c].status = "idle"
  /\ \E query \in { <<"x">>, <<"b">>, <<"t">> }, net \in NetPatterns,
        lunr \in {[throws |-> TRUE, refs |-> <<>>],
                  [throws |-> FALSE, refs |-> searchIndex]} :
       LET p == searchToAwait(fetcher, query, lunr)
       IN  flights' = [flights EXCEPT
                         ![c] = [status |-> p.status, query |-> query, net |-> net,
                                 at |-> p.at, results |-> p.results, fetches |-> 0,
                                 alone |-> search(fetcher, query, lunr, net).results]]
  /\ UNCHANGED <<vars, site, calc, http>>

\* a fetcher that lets one fetch settle at a time, in the order of the clients
settlesInTurn(c) ==
  /\ flights[c].status = "awaiting"
  /\ c = "c1" \/ flights["c1"].status # "awaiting"

\* fetchUrl gives every call a promise of its own (await axios.get(url)): the
\* fetch client c waits for can settle whatever the other requests wait for
settles(c) == flights[c].status = "awaiting"

\* the fetch a search awaits settles: "doc.content = await ..." assigns, and
\* the loop runs on to its next await or to the return
Resume(c) ==
  /\ settles(c)
  /\ LET documentsToSearch == slice(docStructure, ContentScanDocs)
         ref == documentsToSearch[flights[c].at]
         got == fetchDocContent(items[ref].url, searchDocs, flights[c].net,
                                flights[c].fetches)
         heap == [items EXCEPT ![ref].content = got.text]
         p == scanFetched(documentsToSearch, heap, toLowerCase(flights[c].query),
                          flights[c].at, flights[c].results)
     IN  /\ items' = heap
         /\ flights' = [flights EXCEPT
                          ![c].status = p.status, ![c].at = p.at,
                          ![c].results = p.results,
                          ![c].fetches = flights[c].fetches + Len(got.fetched)]
  /\ UNCHANGED <<http, calc, site, mode, pc, initState, idxTask, navTask, searchIndex,
                 searchDocs, searchIndexCache, docStructure, docMap, served, last>>

FlightNext ==
  \/ StartInit
  \/ IndexBuilt
  \/ IndexFailed
  \/ NavBuilt
  \/ NavFailed
  \/ InitResolve
  \/ InitReject
  \/ \E c \in Clients : Issue(c)
  \/ \E c \in Clients : Resume(c)

\* the searches in flight are followed on the sites whose content loop has
\* few awaits
FlightInit == Init /\ site # "large"

FlightSpec == FlightInit /\ [][FlightNext]_allVars

\* weak fairness of Resume("c2"), with "settles" for its enabledness (a
\* Resume step always moves the search on): the fetches of the second client
\* settle in the end, those of the first may never
FlightLiveSpec ==
  /\ FlightSpec
  /\ []<>(~settles("c2")) \/ []<><<Resume("c2")>>_allVars

(***************************************************************************)
(* Calls of the pure helpers on texts of their own.                        *)
(***************************************************************************)
MaxPieces == 3

\* what the texts to normalize are made of: a tag, entities of the table
\* and one outside it, the tail of an entity, a letter, a space, a literal
\* backslash escape
Pieces ==
  { <<"<","b",">">>, <<"&","l","t",";">>, <<"&","g","t",";">>,
    <<"&","a","m","p",";">>, <<"l","t",";">>, <<"&","c","o","p","y",";">>,
    <<"a">>, <<" ">>, <<"\\","n">> }

RECURSIVE TextsOf(_)
TextsOf(n) ==
  IF n = 0 THEN {<<>>}
  ELSE TextsOf(n - 1) \cup {t \o p : t \in TextsOf(n - 1), p \in Pieces}

\* the two normalizers by name
normalize(fn, text) ==
  IF fn = "cleanHtml" THEN cleanHtml(text) ELSE fetcherCleanHtml(text)

Normalizers == {"cleanHtml", "fetcherCleanHtml"}

\* the texts snippets are made of: a word between two runs of a letter,
\* of the lengths about the window's, behind a tag or a space or nothing,
\* the word once more at the end or not
TextLen == 500
MatchAt == 300

SnippetTexts ==
  LET run(n) == [i \in 1..n |-> "a"]
      Lengths(word) == {0, 1, SnippetBefore - 1, SnippetBefore, SnippetBefore + 1,
                        MatchAt, TextLen - MatchAt - Len(word)}
      About(word) ==
        {lead \o run(before) \o word \o run(after) \o again :
           lead \in {<<>>, <<"<","b",">">>, <<" ">>},
           before \in Lengths(word), after \in Lengths(word),
           again \in {<<>>, word}}
  IN  UNION {About(word) : word \in {<<"Q">>, <<"q","x">>, <<"-">>}}

\* the content regions: up to MaxLists lists of up to MaxItems items, the
\* items of a region named a, b, c ... in document order
MaxLists == 2
MaxItems == 3

ItemNames == <<"a", "b", "c", "d", "e", "f", "g", "h", "i", "j", "k", "l">>

RECURSIVE regionOf(_, _, _)
regionOf(tagNames, sizes, before) ==
  IF tagNames = <<>> THEN <<>>
  ELSE <<[tagName |-> Head(tagNames),
          items |-> [k \in 1..Head(sizes) |-> <<ItemNames[before + k]>>]]>>
         \o regionOf(Tail(tagNames), Tail(sizes), before + Head(sizes))

Regions ==
  UNION {{regionOf(tagNames, sizes, 0) :
            tagNames \in [1..n -> {"ul", "ol"}], sizes \in [1..n -> 1..MaxItems]} :
         n \in 1..MaxLists}

\* the calls made of the helpers
Calls ==
  {[NoCalc EXCEPT !.fn = fn, !.text = text, !.stage = "called"] :
     fn \in Normalizers, text \in TextsOf(MaxPieces)}
  \cup
  {[NoCalc EXCEPT !.fn = "createSnippet", !.text = text, !.query = query,
                  !.stage = "called"] :
     text \in SnippetTexts \cup {<<>>}, query \in {<<"q">>, <<"Q","X">>, <<>>}}
  \cup
  {[NoCalc EXCEPT !.fn = "parseDocContent", !.region = region, !.stage = "called"] :
     region \in Regions}

\* a normalizer returns
Clean ==
  /\ calc.stage = "called"
  /\ calc.fn \in Normalizers
  /\ calc' = [calc EXCEPT !.out = normalize(calc.fn, calc.text), !.stage = "returned"]
  /\ UNCHANGED <<vars, site, flights, http>>

\* the normalizer is called on what it returned
CleanAgain ==
  /\ calc.stage = "returned"
  /\ calc.fn \in Normalizers
  /\ calc' = [calc EXCEPT !.again = normalize(calc.fn, calc.out), !.stage = "repeated"]
  /\ UNCHANGED <<vars, site, flights, http>>

\* createSnippet returns
Snippet ==
  /\ calc.stage = "called"
  /\ calc.fn = "createSnippet"
  /\ calc' = [calc EXCEPT !.out = createSnippet(calc.text, calc.query),
                          !.stage = "returned"]
  /\ UNCHANGED <<vars, site, flights, http>>

\* parseDocContent returns for a page whose content region holds lists
Extract ==
  /\ calc.stage = "called"
  /\ calc.fn = "parseDocContent"
  /\ calc' = [calc EXCEPT !.out = cleanupContent(processContent(calc.region)),
                          !.stage = "returned"]
  /\ UNCHANGED <<vars, site, flights, http>>

CalcNext ==
  \/ Clean
  \/ CleanAgain
  \/ Snippet
  \/ Extract

\* a process that has loaded its modules and makes one of the calls
CalcInit == Loaded /\ mode = "service" /\ site = "small" /\ calc \in Calls

CalcSpec == CalcInit /\ [][CalcNext]_allVars

(***************************************************************************)
(* The HTTP server: the registries of SSE and streamable-HTTP sessions and *)
(* the routes /sse, /messages and /mcp.  The transports and the CORS       *)
(* middleware are the SDK's and the cors package's: what they do with a    *)
(* request is one of the outcomes their interface allows.                  *)
(***************************************************************************)
\* the transports one process creates in the runs followed
MaxTransports == 3

\* randomUUID(): the session id of the n-th transport, unlike all others
sessionIdOf(n) == "uuid-" \o ToString(n)

transportName(n) == "t" \o ToString(n)

\* names of members every plain object inherits from Object.prototype
PrototypeKeys == {"constructor", "__proto__"}

\* the sessionId query parameter or mcp-session-id header of a request:
\* absent, the id of a session the process created or may create, an id no
\* session ever had, the name of an inherited member
SessionArgs ==
  {NoSessionId, "no-such-session"} \cup PrototypeKeys
    \cup {sessionIdOf(n) : n \in 1..MaxTransports}

Methods == {"POST", "GET", "DELETE", "PUT", "OPTIONS"}

\* a registry whose lookups see the keys of its own only
ownPropertyOf(registry, sessionId) ==
  IF mapHas(registry, sessionId)
    THEN [is |-> "transport", t |-> mapGet(registry, sessionId)]
    ELSE [is |-> "undefined", t |-> "none"]

\* registry[sessionId] on a plain object: the transport stored under the key
\* or, the object having no such key of its own, the member inherited from
\* Object.prototype under that name, or undefined
propertyOf(registry, sessionId) ==
  IF mapHas(registry, sessionId)
    THEN [is |-> "transport", t |-> mapGet(registry, sessionId)]
  ELSE IF sessionId \in PrototypeKeys
    THEN [is |-> "inherited", t |-> "none"]
    ELSE [is |-> "undefined", t |-> "none"]

\* a registry that never forgets a session
keepProperty(registry, sessionId) == registry

\* delete registry[sessionId]
deleteProperty(registry, sessionId) ==
  SelectSeq(registry, LAMBDA e : e.key # sessionId)

\* !sessionId || !registry[sessionId]
noSession(registry, sessionId) ==
  sessionId = NoSessionId \/ propertyOf(registry, sessionId).is = "undefined"

\* the position of a transport among those created
nth(name) == CHOOSE n \in 1..Len(http.made) : http.made[n].name = name

\* the request as it is handled
httpRequest(route, method, sessionId, initialize) ==
  [NoHttpRequest EXCEPT !.route = route, !.method = method,
                        !.sessionId = sessionId, !.initialize = initialize]

\* the Express app answers once app.listen has run, and the handlers below
\* run to their response with no await on anything but the transport
listening == mode = "http" /\ pc = "serving" /\ http.req = NoHttpRequest

\* app.get('/sse'): a transport of its own for the connection, stored under
\* the session id its constructor drew; server.connect may reject, which is
\* logged
GetSse ==
  /\ listening
  /\ Len(http.made) < MaxTransports
  /\ \E connects \in BOOLEAN :
       LET n == Len(http.made) + 1 IN
       http' = [http EXCEPT
                  !.made = Append(@, [name |-> transportName(n), kind |-> "sse",
                                      sessionId |-> sessionIdOf(n), open |-> TRUE,
                                      connected |-> connects]),
                  !.sse = mapSet(@, sessionIdOf(n), transportName(n)),
                  !.req = [httpRequest("/sse", "GET", NoSessionId, FALSE) EXCEPT
                             !.status = "200", !.created = <<transportName(n)>>]]
  /\ UNCHANGED <<vars, site, flights, calc>>

\* res.on('close') of an SSE connection: delete transports.sse[sessionId]
SseClose ==
  /\ listening
  /\ \E n \in 1..Len(http.made) :
       /\ http.made[n].kind = "sse"
       /\ http.made[n].open
       /\ http' = [http EXCEPT
                     !.made[n].open = FALSE,
                     !.sse = deleteProperty(@, http.made[n].sessionId)]
  /\ UNCHANGED <<vars, site, flights, calc>>

\* handleMessage of app.post('/messages') for the sessionId of the query;
\* throws: whether handlePostMessage of the transport throws
handleMessage(sessionId, throws) ==
  LET r == httpRequest("/messages", "POST", sessionId, FALSE)
      transport == propertyOf(http.sse, sessionId)
  IN  IF noSession(http.sse, sessionId)
        THEN [r EXCEPT !.status = "400"]
      ELSE IF transport.is = "inherited"
        \* transport.handlePostMessage is not a function: caught
        THEN [r EXCEPT !.status = "500"]
      ELSE [r EXCEPT !.to = transport.t,
                     !.status = IF throws THEN "500" ELSE "202"]

PostMessages ==
  /\ listening
  /\ \E sessionId \in SessionArgs :
       \E throws \in (IF propertyOf(http.sse, sessionId).is = "transport"
                        THEN BOOLEAN ELSE {FALSE}) :
         http' = [http EXCEPT !.req = handleMessage(sessionId, throws)]
  /\ UNCHANGED <<vars, site, flights, calc>>

\* what a streamable transport may do with a request handed to it: answer
\* it, answer it and close (a DELETE ends the session), or refuse it
SdkOutcomes == {"answered", "closed", "refused"}

\* the response of the catch clause of the /mcp handler
internalError(r) == [r EXCEPT !.status = "500", !.code = "-32603"]

badRequest(r) == [r EXCEPT !.status = "400", !.code = "-32000"]

\* an onclose that leaves the registry as it is
oncloseKeepsSession(h, n) == [h EXCEPT !.made[n].open = FALSE]

\* transport.onclose as the handler sets it: the session id, once there is
\* one, leaves the registry
onclose(h, n) ==
  [h EXCEPT !.made[n].open = FALSE,
            !.streamable = IF h.made[n].sessionId # NoSessionId
                             THEN deleteProperty(@, h.made[n].sessionId) ELSE @]

\* transport.handleRequest of the transport registered under the session id
\* of the request r
handOver(h, r, outcome) ==
  LET transport == propertyOf(h.streamable, r.sessionId) IN
  IF transport.is = "inherited"
    \* transport.handleRequest is not a function: caught
    THEN [h EXCEPT !.req = internalError(r)]
  ELSE LET handled == [h EXCEPT !.req = [r EXCEPT !.to = transport.t,
                                                  !.status = IF outcome = "refused"
                                                               THEN "400" ELSE "200"]]
       IN  IF outcome = "closed" /\ r.method = "DELETE"
             THEN onclose(handled, nth(transport.t))
             ELSE handled

\* the initialization branch: a new transport, connected to the server and
\* handed the request; handling an initialize request draws the session id
\* and calls onsessioninitialized, which stores the transport under it
initializeSession(h, r, connects, outcome) ==
  LET n == Len(h.made) + 1
      created == [h EXCEPT
                    !.made = Append(@, [name |-> transportName(n),
                                        kind |-> "streamable",
                                        sessionId |-> NoSessionId, open |-> TRUE,
                                        connected |-> connects])]
      creating == [r EXCEPT !.created = <<transportName(n)>>]
  IN  IF ~connects THEN [created EXCEPT !.req = internalError(creating)]
      ELSE IF outcome = "refused"
        THEN [created EXCEPT !.req = [creating EXCEPT !.to = transportName(n),
                                                      !.status = "400"]]
      ELSE [created EXCEPT
              !.made[n].sessionId = sessionIdOf(n),
              !.streamable = mapSet(@, sessionIdOf(n), transportName(n)),
              !.req = [creating EXCEPT !.to = transportName(n), !.status = "200"]]

\* app.all('/mcp') behind app.use(cors()), which answers an OPTIONS request
\* itself
mcp(h, r, connects, outcome) ==
  IF r.method = "OPTIONS" THEN [h EXCEPT !.req = [r EXCEPT !.status = "204"]]
  ELSE IF r.method = "POST"
    THEN IF r.sessionId # NoSessionId
              /\ propertyOf(h.streamable, r.sessionId).is # "undefined"
           THEN handOver(h, r, outcome)
         ELSE IF r.sessionId = NoSessionId /\ r.initialize
           THEN initializeSession(h, r, connects, outcome)
           ELSE [h EXCEPT !.req = badRequest(r)]
  ELSE IF r.method \in {"GET", "DELETE"}
    THEN IF noSession(h.streamable, r.sessionId)
           THEN [h EXCEPT !.req = badRequest(r)]
           ELSE handOver(h, r, outcome)
  ELSE [h EXCEPT !.req = [r EXCEPT !.status = "405"]]

\* whether the request goes the initialization branch
initializes(method, sessionId, initialize) ==
  method = "POST" /\ sessionId = NoSessionId /\ initialize

Mcp ==
  /\ listening
  /\ \E method \in Methods, sessionId \in SessionArgs, initialize \in BOOLEAN :
       /\ initializes(method, sessionId, initialize) => Len(http.made) < MaxTransports
       /\ \E connects \in (IF initializes(method, sessionId, initialize)
                             THEN BOOLEAN ELSE {TRUE}),
             outcome \in SdkOutcomes :
            http' = mcp(http, httpRequest("/mcp", method, sessionId, initialize),
                        connects, outcome)
  /\ UNCHANGED <<vars, site, flights, calc>>

\* a streamable transport closes of itself (its stream ends, the server
\* closes it): its onclose runs
StreamClose ==
  /\ listening
  /\ \E n \in 1..Len(http.made) :
       /\ http.made[n].kind = "streamable"
       /\ http.made[n].open
       /\ http' = onclose(http, n)
  /\ UNCHANGED <<vars, site, flights, calc>>

\* the response is out
HttpRespond ==
  /\ http.req # NoHttpRequest
  /\ http' = [http EXCEPT !.req = NoHttpRequest]
  /\ UNCHANGED <<vars, site, flights, calc>>

HttpNext ==
  \/ StartInit
  \/ IndexBuilt
  \/ IndexFailed
  \/ NavBuilt
  \/ NavFailed
  \/ InitResolve
  \/ InitReject
  \/ GetSse
  \/ SseClose
  \/ PostMessages
  \/ Mcp
  \/ StreamClose
  \/ HttpRespond

\* the HTTP server on the small site
HttpInit == Init /\ mode = "http" /\ site = "small"

HttpSpec == HttpInit /\ [][HttpNext]_allVars

(***************************************************************************)
(* Properties.                                                             *)
(***************************************************************************)
\* the process is one of the two servers
isServer == mode \in {"http", "stdio"}

\* a getDocument request of the shared tools with a title and no path
byTitleAlone ==
  /\ last.op = "getDocument"
  /\ last.impl = "tools"
  /\ Truthy(last.title)
  /\ ~Truthy(last.path)

\* C1: a server takes requests only once init() has resolved with both the
\* index build and the navigation build done; once a build has failed the
\* server never listens or connects and handles no request, and a rejected
\* init() has ended the process.
C1_ServesOnlyAfterInit ==
  isServer =>
    /\ (pc = "serving" \/ served \/ last.op # "none") =>
         (initState = "resolved" /\ idxTask = "done" /\ navTask = "done")
    /\ (idxTask = "failed" \/ navTask = "failed") =>
         (pc # "serving" /\ ~served /\ last.op = "none")
    /\ initState = "rejected" => pc = "exited"

C1_Witness ==
  /\ mode = "http"
  /\ pc = "serving"
  /\ last.op = "searchDocs"
  /\ last.status = "ok"

\* C2: search never raises to its caller (no handler fails with the error of
\* a search), and a search made with no index, or whose index query throws,
\* returns what fallbackSearch returns for the query.  What fallbackSearch
\* fetched is kept in the item objects, and a failed fetch is kept as the
\* placeholder, so fallbackSearch returns the same again in the state the
\* request has left.
C2_SearchNeverRaises ==
  /\ last.error # "search"
  /\ last.op = "searchDocs" =>
       /\ last.status = "ok"
       /\ (~last.indexed \/ last.lunr.throws) =>
            /\ last.via = "fallback"
            /\ last.results =
                 publicResults(fallbackSearch(fetcher, last.query, NoFailure).results)

C2_Witness ==
  /\ last.op = "searchDocs"
  /\ last.indexed
  /\ last.lunr.throws
  /\ last.status = "ok"
  /\ last.via = "fallback"
  /\ last.results # <<>>

\* the index was there and its query returned no reference, without throwing
emptyIndexAnswer ==
  /\ last.op = "searchDocs"
  /\ last.indexed
  /\ ~last.lunr.throws
  /\ last.lunr.refs = <<>>

\* C3 (as stated): when the index is built and the index query returns no
\* document, search returns what fallbackSearch returns for the query.
C3_EmptyAnswerIsFallback ==
  emptyIndexAnswer =>
    /\ last.status = "ok"
    /\ \E net \in NetPatterns :
         last.results = publicResults(fallbackSearch(fetcher, last.query, net).results)

\* C3 (amended): when the index is built and the index query returns no
\* document, search returns the empty list, not an error, and fallbackSearch
\* is not run: nothing is fetched.
C3_EmptyAnswerIsEmpty ==
  emptyIndexAnswer =>
    /\ last.status = "ok"
    /\ last.via = "index"
    /\ last.results = <<>>
    /\ last.fetched = <<>>

\* an empty answer to a query that the title of a navigation item contains
C3_Witness ==
  /\ emptyIndexAnswer
  /\ last.results = <<>>
  /\ \E i \in 1..Len(docMap) :
       includes(toLowerCase(items[docMap[i].val].title), toLowerCase(last.query))

\* C4: a search returns at most 10 results, whether the index, the title
\* loop of the fallback or its content loop answers, in a search request
\* and in the search of a getDocument request.
C4_AtMostTenResults ==
  last.op \in {"searchDocs", "getDocument"} => Len(last.results) <= 10

C4_Witness ==
  /\ last.op = "searchDocs"
  /\ last.via = "index"
  /\ Len(last.lunr.refs) > 10
  /\ Len(last.results) = 10

\* C5: getDocumentHandler given both a path and a title, or neither (null,
\* undefined and the empty string being no value), fails with the error that
\* asks for exactly one of them, and has searched nothing and fetched nothing.
C5_ExactlyOneOfPathAndTitle ==
  (/\ last.op = "getDocument"
   /\ last.impl = "tools"
   /\ Truthy(last.path) = Truthy(last.title)) =>
    /\ last.status = "error"
    /\ last.error = "exactlyOne"
    /\ last.searches = <<>>
    /\ last.fetched = <<>>
    /\ last.doc = NoDoc

C5_Witness ==
  /\ last.op = "getDocument"
  /\ last.impl = "tools"
  /\ Truthy(last.path)
  /\ Truthy(last.title)
  /\ last.error = "exactlyOne"

\* the titles of the documents of the feed and of the navigation items
knownTitles ==
  {searchDocs[i].val.title : i \in 1..Len(searchDocs)}
    \cup {items[i].title : i \in 1..Len(items)}

\* the title is no part of the title of any document (so it equals none),
\* and it is not the title with the fixed address
titleUnknown(title) ==
  /\ title # hardcodedTitle
  /\ \A t \in knownTitles : ~includes(toLowerCase(t), toLowerCase(title))

\* C6: getDocumentHandler with a title alone fails with the not-found error
\* naming the title, and returns no document, when the title is part of no
\* document's title, is not the title with the fixed address, and the title
\* query of the index finds no document for it.
C6_UnknownTitleNotFound ==
  (byTitleAlone /\ titleUnknown(last.title) /\ last.lunrTitle.refs = <<>>) =>
    /\ last.status = "error"
    /\ last.error = "notFound"
    /\ last.errorTitle = last.title
    /\ last.doc = NoDoc

\* the search returned documents, the title query threw and the loop over
\* the documents found none
C6_Witness ==
  /\ byTitleAlone
  /\ titleUnknown(last.title)
  /\ last.results # <<>>
  /\ last.lunrTitle.throws
  /\ last.error = "notFound"
  /\ last.errorTitle = last.title

\* C7: getDocumentHandler resolves a title by the first of: a match among
\* the results of the search, the title with the fixed address, the lookup
\* by title (title map first); a later one is consulted only when the
\* earlier ones gave nothing, so a title that a search result matches
\* resolves to that result even when the title map holds it.
C7_ResolutionOrder ==
  (byTitleAlone /\ last.searches # <<>> /\ last.error # "search") =>
    /\ firstMatch("tools", last.results, last.title) # 0 =>
         /\ last.resolvedBy = "search"
         /\ last.consulted = <<"search">>
         /\ last.doc.url = last.results[firstMatch("tools", last.results, last.title)].url
    /\ (firstMatch("tools", last.results, last.title) = 0
          /\ last.title = hardcodedTitle) =>
         /\ last.resolvedBy = "hardcoded"
         /\ last.consulted = <<"search", "hardcoded">>
         /\ last.doc.url = hardcodedUrl
    /\ (firstMatch("tools", last.results, last.title) = 0
          /\ last.title # hardcodedTitle) =>
         /\ last.resolvedBy \in {"titleMap", "titleIndex", "titleScan", "none"}
         /\ last.consulted = <<"search", "hardcoded", "getDocumentByTitle">>

\* a title that a search result matches and that the title map holds with
\* another address
C7_Witness ==
  /\ byTitleAlone
  /\ last.resolvedBy = "search"
  /\ mapHas(docMap, toLowerCase(last.title))
  /\ last.doc.url # items[mapGet(docMap, toLowerCase(last.title))].url

\* C8 (as stated): the document chosen among the search results is the first
\* whose title equals the requested title, equals it but for case, contains
\* it or is contained by it.
C8_FirstOfFourWayMatch ==
  (last.op = "getDocument" /\ Truthy(last.title) /\ ~Truthy(last.path)
     /\ last.searches # <<>> /\ last.error # "search"
     /\ firstMatch("service", last.results, last.title) # 0) =>
    /\ last.resolvedBy = "search"
    /\ last.doc.url = last.results[firstMatch("service", last.results, last.title)].url

\* a request that returned a document, handled with the feed in place
documentReturned ==
  /\ last.op = "getDocument"
  /\ last.status = "ok"
  /\ last.indexed

\* the feed has a document at the location, whatever its text
inFeed(path) == mapHas(searchDocs, normalizedPath(path))

\* the feed has a document at the location and its text is not empty
hasFeedText(path) ==
  /\ inFeed(path)
  /\ mapGet(searchDocs, normalizedPath(path)).text # <<>>

\* C9 (as stated): for a location that, the base address stripped, is the
\* location of a document of the feed, fetchDocContent returns the text of
\* that document, whatever it is, and fetches nothing.
C9_FeedTextWhateverItIs ==
  /\ documentReturned /\ inFeed(last.doc.url) =>
       /\ last.doc.content = cleanHtml(mapGet(searchDocs, normalizedPath(last.doc.url)).text)
       /\ last.doc.url \notin Range(last.fetched)
  /\ last.indexed => \A i \in 1..Len(last.fetched) : ~inFeed(last.fetched[i])

\* C9 (amended): for a location that, the base address stripped, is the
\* location of a document of the feed with a text that is not empty,
\* fetchDocContent returns that text and fetches nothing, the location being
\* given relative or with the base address in front; no request fetches
\* such a location.
C9_FeedTextWhenNotEmpty ==
  /\ documentReturned /\ hasFeedText(last.doc.url) =>
       /\ last.doc.content = cleanHtml(mapGet(searchDocs, normalizedPath(last.doc.url)).text)
       /\ last.doc.url \notin Range(last.fetched)
  /\ last.indexed => \A i \in 1..Len(last.fetched) : ~hasFeedText(last.fetched[i])

\* a path with the base address in front, answered from the feed
C9_Witness ==
  /\ documentReturned
  /\ last.resolvedBy = "path"
  /\ last.path = baseUrl \o <<"foo", "/", "bar", "/">>
  /\ last.fetched = <<>>
  /\ last.doc.content = <<"x", "y", " ", "b">>

\* the address fetchDocContent would fetch for the path cannot be fetched:
\* it is no address, or the site has no page there
unreachable(path) ==
  \/ ~resolveUrl(path).ok
  \/ ~HasPage(resolveUrl(path).url)

\* C10: getDocumentHandler with a path alone always returns a document; when
\* the feed has no text for the path, the content is that of the page
\* fetched or, the fetch failing, the placeholder, and it is the placeholder
\* when the location cannot be reached.
C10_PlaceholderOnFailedFetch ==
  (last.op = "getDocument" /\ last.impl = "tools"
     /\ Truthy(last.path) /\ ~Truthy(last.title)) =>
    /\ last.status = "ok"
    /\ last.resolvedBy = "path"
    /\ ~hasFeedText(last.path) =>
         /\ unreachable(last.path) => last.doc.content = placeholder
         /\ ~unreachable(last.path) =>
              last.doc.content \in
                {placeholder,
                 cleanHtml(parseDocContent(PageAt(resolveUrl(last.path).url)))}

\* a fetch that failed, of a location with no page
C10_Witness ==
  /\ last.op = "getDocument"
  /\ last.impl = "tools"
  /\ last.path = <<"nowhere">>
  /\ last.status = "ok"
  /\ last.fetched # <<>>
  /\ last.doc.content = placeholder

\* init() has resolved: the state the specification calls Ready
ready == initState = "resolved"

\* the content an item object may hold: none, as built, or what
\* fetchDocContent returns for its address, the page's text or the placeholder
contentAsFetched(item) ==
  \/ item.content = Undefined
  \/ item.content = placeholder
  \/ item.content = fetchDocContent(item.url, searchDocs, NoFailure, 0).text

\* the navigation structure, the title map and the title and address of
\* every item are as parseMainDocStructure built them
navigationAsBuilt(built) ==
  /\ docStructure = built.structure
  /\ docMap = built.docMap
  /\ Len(items) = Len(built.items)
  /\ \A i \in 1..Len(items) :
       /\ items[i].title = built.items[i].title
       /\ items[i].url = built.items[i].url

\* the index and the map of the feed are as initializeSearchIndex built them
indexAsBuilt ==
  /\ searchDocs = docsByLocation(FeedOf(site), <<>>)
  /\ searchIndex = [i \in 1..Len(FeedOf(site)) |-> FeedOf(site)[i].location]

C12_InFlightAsIfAlone ==
  \A c \in Clients :
    (flights[c].status = "done" /\ flights[c].net = NoFailure)
      => flights[c].results = flights[c].alone

\* two searches were in flight together and one has returned
C12_Overlap ==
  \E c, d \in Clients :
    /\ c # d
    /\ flights[c].status = "done"
    /\ flights[c].fetches > 0
    /\ flights[d].status = "awaiting"

\* the fetcher without the placeholders its items hold for a content
withoutPlaceholders ==
  [fetcher EXCEPT
     !.items = [i \in 1..Len(items) |->
                  IF items[i].content = placeholder
                    THEN [items[i] EXCEPT !.content = Undefined]
                    ELSE items[i]]]

\* the request is a search that fallbackSearch answered from its content loop
byContentLoop ==
  /\ last.op = "searchDocs"
  /\ last.via = "fallback"
  /\ titleScan(docMap, items, toLowerCase(last.query), 1, <<>>) = <<>>

\* C13 (as stated): a failed fetch has no effect on a later request: a
\* search answered from the content loop of fallbackSearch, no fetch of
\* which failed in the network, returns what it returns when the
\* placeholders earlier requests were given are forgotten (a page that can
\* be fetched is searched, not the placeholder)
C13_FailureStaysInItsRequest ==
  (byContentLoop /\ ~last.failed)
    => last.results =
         publicResults(fallbackSearch(withoutPlaceholders, last.query, NoFailure).results)

\* C14 (as stated): normalization is idempotent: a normalizer called on
\* what it returned returns it unchanged
C14_NormalizeIdempotent ==
  calc.stage = "repeated" => calc.again = calc.out

\* the text holds a "<", and a ">" after it: a match of /<[^>]*>/
hasTag(s) ==
  \E i \in 1..Len(s) : \E j \in (i + 1)..Len(s) : s[i] = "<" /\ s[j] = ">"

\* the text holds a named entity token: "&", a name of letters and digits
\* that begins with a letter, ";"
hasNamedEntity(s) ==
  \E i \in 1..Len(s) :
    /\ entityLen(s, i) > 0
    /\ \A k \in (i + 1)..(i + entityLen(s, i) - 2) : s[k] # "#"
    /\ s[i + 1] \notin Range(DigitChars)

\* C15 (as stated): what a normalizer returns holds no tag fragment and no
\* named entity token
C15_NoTagNoEntityLeft ==
  (calc.fn \in Normalizers /\ calc.stage \in {"returned", "repeated"})
    => ~hasTag(calc.out) /\ ~hasNamedEntity(calc.out)

\* the offset of the first occurrence of the query in the text, letter case
\* apart; -1 when there is none
firstOccurrence(text, query) ==
  LET at(p) == /\ p + Len(query) <= Len(text)
               /\ \A k \in 1..Len(query) :
                    toLowerChar(text[p + k]) = toLowerChar(query[k])
  IN  IF \E p \in 0..Len(text) : at(p)
        THEN CHOOSE p \in 0..Len(text) : at(p) /\ \A r \in 0..(p - 1) : ~at(r)
        ELSE -1

\* createSnippet has returned for a text that is not empty
snippetMade ==
  calc.fn = "createSnippet" /\ calc.stage = "returned" /\ calc.text # <<>>

\* the window the snippet of a match at offset i is to be
windowFrom(i) == IF i > SnippetBefore THEN i - SnippetBefore ELSE 0

windowTo(clean, i, n) ==
  IF i + n + SnippetAfter < Len(clean) THEN i + n + SnippetAfter ELSE Len(clean)

\* C16: when the query occurs in the normalized text, first at offset i,
\* createSnippet returns the normalized text from max(0, i - 100) to
\* min(length, i + |query| + 100), with the marker in front exactly when the
\* window does not begin the text and behind exactly when it does not end
\* it; the result is a function of the two arguments
C16_SnippetIsWindow ==
  LET clean == fetcherCleanHtml(calc.text)
      i == firstOccurrence(clean, calc.query)
      from == windowFrom(i)
      to == windowTo(clean, i, Len(calc.query))
  IN  (snippetMade /\ i # -1) =>
        /\ calc.out = (IF from > 0 THEN Ellipsis ELSE <<>>)
                        \o SubSeq(clean, from + 1, to)
                        \o (IF to < Len(clean) THEN Ellipsis ELSE <<>>)
        /\ calc.out = createSnippet(calc.text, calc.query)

\* a snippet with both markers, cut on both sides of a match
C16_Witness ==
  /\ snippetMade
  /\ firstOccurrence(fetcherCleanHtml(calc.text), calc.query) > SnippetBefore
  /\ Len(calc.out) = SnippetBefore + Len(calc.query) + SnippetAfter + 2 * Len(Ellipsis)
  /\ Len(calc.query) > 0
  /\ calc.text # fetcherCleanHtml(calc.text)

\* createSnippet has returned for a normalized text of TextLen characters in
\* which the query, not empty, is first found at offset MatchAt
longTextMatched ==
  /\ snippetMade
  /\ Len(calc.query) > 0
  /\ Len(fetcherCleanHtml(calc.text)) = TextLen
  /\ firstOccurrence(fetcherCleanHtml(calc.text), calc.query) = MatchAt

\* the text begins and ends with the marker
markedOnBothSides(s) ==
  /\ Len(s) >= 2 * Len(Ellipsis)
  /\ SubSeq(s, 1, Len(Ellipsis)) = Ellipsis
  /\ SubSeq(s, Len(s) - Len(Ellipsis) + 1, Len(s)) = Ellipsis

\* C17 (as stated): for a text of length 500 and a query found at offset
\* 300, the snippet returned has at most 100 + 100 + the matched length
\* characters and a marker on both sides
C17_SnippetWithinTwoHundred ==
  longTextMatched =>
    /\ Len(calc.out) <= SnippetBefore + SnippetAfter + Len(calc.query)
    /\ markedOnBothSides(calc.out)

\* C17 (amended): the snippet is a marker, at most 100 + 100 + the matched
\* length characters of the text, and a marker: the two markers come on top
\* of that length
C17_SnippetBetweenMarkers ==
  longTextMatched =>
    /\ markedOnBothSides(calc.out)
    /\ Len(calc.out) - 2 * Len(Ellipsis)
         <= SnippetBefore + SnippetAfter + Len(calc.query)
    /\ SubSeq(calc.out, Len(Ellipsis) + 1, Len(calc.out) - Len(Ellipsis))
         = SubSeq(fetcherCleanHtml(calc.text), MatchAt - SnippetBefore + 1,
                  MatchAt + Len(calc.query) + SnippetAfter)

C17_Witness ==
  /\ longTextMatched
  /\ Len(calc.out) = SnippetBefore + SnippetAfter + Len(calc.query) + 2 * Len(Ellipsis)

\* the title and url of the entries of the navigation structure, in order
structureEntries ==
  [k \in 1..Len(docStructure) |-> publicItem(items[docStructure[k]])]

\* the entries that the given anchors make, one each, in their order
entriesOf(anchors) ==
  [k \in 1..Len(anchors) |->
     [title |-> trim(anchors[k].text), url |-> resolveUrl(hrefOf(anchors[k])).url]]

namesHome(anchor) == includes(trim(anchor.text), Home)

\* C18 (as stated): the navigation structure has one entry for every anchor
\* of the navigation region whose trimmed text does not contain "Home", in
\* the order of the page
C18_EveryAnchorButHome ==
  navTask = "done" =>
    structureEntries =
      entriesOf(SelectSeq(NavPageOf(site), LAMBDA a : ~namesHome(a)))

\* C18 (amended): the anchors without a text are left out as well, and there
\* is a structure only when the href of every anchor taken resolves
C18_EveryTitledAnchorButHome ==
  /\ navTask = "done" =>
       structureEntries =
         entriesOf(SelectSeq(NavPageOf(site),
                             LAMBDA a : trim(a.text) # <<>> /\ ~namesHome(a)))
  /\ navTask # "done" => docStructure = <<>>

C18_Witness ==
  /\ navTask = "done"
  /\ docStructure # <<>>
  /\ \E k \in 1..Len(NavPageOf(site)) : namesHome(NavPageOf(site)[k])
  /\ \E k \in 1..Len(NavPageOf(site)) : trim(NavPageOf(site)[k].text) = <<>>
  /\ \E k \in 1..Len(NavPageOf(site)) :
       includes(toLowerCase(NavPageOf(site)[k].text), toLowerCase(Home))
         /\ ~namesHome(NavPageOf(site)[k])

\* the text of one list whose items each have the one prefix of that list:
\* the bullet, or the position in the list
RECURSIVE listText(_, _)
listText(list, n) ==
  IF n > Len(list.items) THEN <<>>
  ELSE (IF list.tagName = "ol" THEN DecChars(n) \o <<".", " ">> ELSE <<"BULLET", " ">>)
         \o list.items[n] \o <<"LF">> \o listText(list, n + 1)

RECURSIVE listsText(_)
listsText(lists) ==
  IF lists = <<>> THEN <<>> ELSE listText(Head(lists), 1) \o listsText(Tail(lists))

\* C19 (as stated): in the extracted text every list item has exactly one
\* prefix, that of its list: the bullet in an unordered list, its 1-based
\* position within the list in an ordered one, also when the region holds
\* more than one list
C19_OnePrefixPerItem ==
  (calc.fn = "parseDocContent" /\ calc.stage = "returned")
    => calc.out = cleanupContent(listsText(calc.region))

\* the address is absolute: a scheme, "//" and a host
absolute(url) ==
  /\ Len(url) >= 4
  /\ url[1] \in {"http:", "https:"}
  /\ url[2] = "/" /\ url[3] = "/"
  /\ url[4] \notin {"/", "["}

\* C20 (as stated): every DocItem of the navigation structure, and every
\* DocItem a search has returned, has an absolute url
C20_UrlsAbsolute ==
  /\ \A k \in 1..Len(docStructure) : absolute(items[docStructure[k]].url)
  /\ last.op \in {"searchDocs", "getDocument"} =>
       \A k \in 1..Len(last.results) : absolute(last.results[k].url)

\* the request is a search that fallbackSearch answered
byFallback == last.op = "searchDocs" /\ last.via = "fallback"

\* the places of the title map whose item has the query in its title,
\* letter case apart
titledPlaces ==
  SelectSeq([k \in 1..Len(docMap) |-> k],
            LAMBDA k : includes(toLowerCase(items[docMap[k].val].title),
                                toLowerCase(last.query)))

\* the places among the first 15 of the structure whose item holds a content
\* with the query in it
contentPlaces ==
  SelectSeq([k \in 1..Len(docStructure) |-> k],
            LAMBDA k : /\ k <= 15
                       /\ items[docStructure[k]].content # Undefined
                       /\ includes(toLowerCase(items[docStructure[k]].content),
                                   toLowerCase(last.query)))

\* the place in the structure of the item with the url, 0 when there is none
placeOf(url) ==
  IF \E k \in 1..Len(docStructure) : items[docStructure[k]].url = url
    THEN CHOOSE k \in 1..Len(docStructure) : items[docStructure[k]].url = url
    ELSE 0

firstTen(s) == SubSeq(s, 1, IF Len(s) < 10 THEN Len(s) ELSE 10)

\* C21: fallbackSearch returns the first (up to 10) entries of the title map
\* whose title contains the query, and fetches nothing; only when there is
\* none it goes through the first 15 entries of the structure in order,
\* fetching those without content, returns the first (up to 10) of them
\* whose content holds the query, and goes no further than the tenth hit
C21_TitlesThenFirstFifteen ==
  byFallback =>
    IF titledPlaces # <<>>
      THEN /\ last.fetched = <<>>
           /\ last.results =
                [n \in 1..Len(firstTen(titledPlaces)) |->
                   contentOrEmpty(items[docMap[titledPlaces[n]].val])]
      ELSE /\ Len(last.results) = Len(firstTen(contentPlaces))
           /\ \A n \in 1..Len(last.results) :
                publicItem(last.results[n])
                  = publicItem(items[docStructure[contentPlaces[n]]])
           /\ \A n \in 1..Len(last.fetched) :
                /\ placeOf(last.fetched[n]) \in 1..15
                /\ n > 1 => placeOf(last.fetched[n - 1]) < placeOf(last.fetched[n])
                /\ Len(contentPlaces) >= 10
                     => placeOf(last.fetched[n]) <= contentPlaces[10]

\* the content loop stopped at its tenth hit, before the end of the 15
C21_Witness ==
  /\ byFallback
  /\ titledPlaces = <<>>
  /\ Len(last.results) = 10
  /\ last.fetched # <<>>
  /\ Len(docStructure) > 15
  /\ placeOf(last.fetched[Len(last.fetched)]) < 15

\* the document of the feed with the location
feedDoc(location) ==
  FeedOf(site)[CHOOSE i \in 1..Len(FeedOf(site)) : FeedOf(site)[i].location = location]

\* C22: once the index is built, the references it holds are the keys of the
\* location-to-SearchDoc map, each key leading to the document of the feed
\* with that location; so a search answered by the index returns one item
\* for each of the first 10 references, in their order, with the title of
\* the reference's document
C22_EveryReferenceResolves ==
  /\ searchIndex # Null =>
       /\ Range(searchIndex) = {searchDocs[i].key : i \in 1..Len(searchDocs)}
       /\ \A i \in 1..Len(searchDocs) : searchDocs[i].val = feedDoc(searchDocs[i].key)
  /\ (last.op = "searchDocs" /\ last.via = "index") =>
       /\ Len(last.results) = (IF Len(last.lunr.refs) < 10 THEN Len(last.lunr.refs) ELSE 10)
       /\ \A n \in 1..Len(last.results) :
            last.results[n].title = feedDoc(last.lunr.refs[n]).title

\* an answer of several items in an order that is not the feed's
C22_Witness ==
  /\ initState = "resolved"
  /\ last.op = "searchDocs"
  /\ last.via = "index"
  /\ Len(last.results) >= 2
  /\ last.lunr.refs[1] = searchIndex[Len(searchIndex)]
  /\ \E n \in 1..Len(last.lunr.refs) : feedDoc(last.lunr.refs[n]).text = <<>>

\* a getDocument request with a path and no title
byPathAlone ==
  /\ last.op = "getDocument"
  /\ Truthy(last.path)
  /\ ~Truthy(last.title)

\* what follows the last "/" of the path
afterLastSlash(path) ==
  LET slashes == {p \in 1..Len(path) : path[p] = "/"}
  IN  IF slashes = {} THEN path
      ELSE SubSeq(path, (CHOOSE p \in slashes : \A r \in slashes : r <= p) + 1,
                  Len(path))

\* C23: getDocument with a path alone searches nothing and resolves no
\* title; it answers with the path as url, with what follows the last "/"
\* of the path as title ('Document' when nothing follows it), and with the
\* content fetchDocContent returns for the path
C23_PathTakenAsGiven ==
  byPathAlone =>
    /\ last.status = "ok"
    /\ last.searches = <<>>
    /\ last.consulted = <<>>
    /\ last.resolvedBy = "path"
    /\ last.lunr = NoQuery /\ last.lunrTitle = NoQuery
    /\ last.results = <<>>
    /\ last.doc.url = last.path
    /\ last.doc.title = (IF afterLastSlash(last.path) = <<>> THEN <<"Document">>
                         ELSE afterLastSlash(last.path))
    /\ \A n \in 1..Len(last.fetched) : last.fetched[n] = resolveUrl(last.path).url
    /\ Len(last.fetched) <= 1

\* a path that ends in "/" and one that does not
C23_Witness ==
  /\ byPathAlone
  /\ last.impl = "tools"
  /\ last.doc.title = <<"Document">>
  /\ last.path # resolveUrl(last.path).url
  /\ last.fetched # <<>>

\* ---------------------------------------------------------------------------
\* C24: a raw fetch that never completes blocks only the request that issued
\* it: while the fetches of the first client may stay unanswered for ever, a
\* search of the second client that waits for a fetch of its own, and whose
\* fetches settle, runs on to its return
C24_OthersEventuallyReturn ==
  (flights["c2"].status = "awaiting") ~> (flights["c2"].status = "done")

\* the first client still waits for its fetch and the second, which fetched
\* too, has returned
C24_Witness ==
  /\ flights["c1"].status = "awaiting"
  /\ flights["c2"].status = "done"
  /\ flights["c2"].fetches > 0

\* ---------------------------------------------------------------------------
\* a location of the feed that is no absolute URL
relativeLocation(location) ==
  location = <<>> \/ location[1] \notin {"http:", "https:"}

\* the document of the feed behind the n-th result of an index search, when
\* its location is relative and its text is not empty
cachedRelative(n) ==
  /\ relativeLocation(last.lunr.refs[n])
  /\ feedDoc(last.lunr.refs[n]).text # <<>>

\* C25 (as stated): for a document of the feed with a relative location and
\* a text that is not empty, the url search returns for it leads
\* fetchDocContent back to the same location, so a getDocument request that
\* finds its document among the results of an index search fetches nothing.
C25_IndexDocsServedFromCache ==
  (last.via = "index" /\ last.error # "search") =>
    /\ \A n \in 1..Len(last.results) :
         cachedRelative(n) => normalizedPath(last.results[n].url) = last.lunr.refs[n]
    /\ (last.op = "getDocument" /\ last.resolvedBy = "search"
          /\ cachedRelative(firstMatch(last.impl, last.results, last.title))) =>
         /\ last.fetched = <<>>
         /\ last.doc.content =
              cleanHtml(feedDoc(last.lunr.refs[firstMatch(last.impl, last.results,
                                                          last.title)]).text)

\* ---------------------------------------------------------------------------
\* C26 (as stated): a POST /messages request is passed to a transport only
\* when its sessionId names a session in the SSE registry, and then to that
\* session's transport; with a missing or unknown sessionId the response is
\* 400 and no transport handles the message.
C26_MessagesOnlyToNamedSession ==
  http.req.route = "/messages" =>
    IF http.req.sessionId # NoSessionId /\ mapHas(http.sse, http.req.sessionId)
      THEN http.req.to = mapGet(http.sse, http.req.sessionId)
      ELSE http.req.status = "400" /\ http.req.to = "none"

\* the sessions whose transport of the kind is still open
openSessions(kind) ==
  {http.made[n].sessionId :
     n \in {m \in 1..Len(http.made) : /\ http.made[m].kind = kind
                                      /\ http.made[m].open
                                      /\ http.made[m].sessionId # NoSessionId}}

\* the session id of the request was that of a transport now closed
ofClosedSession(kind) ==
  \E n \in 1..Len(http.made) :
    /\ http.made[n].kind = kind
    /\ ~http.made[n].open
    /\ http.made[n].sessionId = http.req.sessionId

\* C27: the SSE registry holds the sessions whose GET /sse connection is set
\* up and has not closed, each with the transport of its connection; a POST
\* /messages for the id of a closed connection is answered 400 and handled by
\* no transport
C27_SseRegistryIsOpenConnections ==
  /\ {http.sse[i].key : i \in 1..Len(http.sse)} = openSessions("sse")
  /\ \A i \in 1..Len(http.sse) :
       http.made[nth(http.sse[i].val)].sessionId = http.sse[i].key
  /\ (http.req.route = "/messages" /\ ofClosedSession("sse")) =>
       (http.req.status = "400" /\ http.req.to = "none")

\* a message for a closed session while another session is open
C27_Witness ==
  /\ http.req.route = "/messages"
  /\ ofClosedSession("sse")
  /\ http.req.status = "400"
  /\ http.sse # <<>>

\* the request a step of the /mcp route handles
mcpStep == http.req = NoHttpRequest /\ http'.req.route = "/mcp"

\* the session id names a streamable session registered when the request
\* arrives
registeredSession(sessionId) ==
  sessionId # NoSessionId /\ mapHas(http.streamable, sessionId)

\* C28 (as stated): on /mcp a POST with a registered session id is handled by
\* that session's transport and creates none; a POST with no session id and
\* an initialize body creates one transport and connects it; every other POST
\* gets 400 with error -32000 and creates none; GET and DELETE without a
\* registered session id get 400; any other method gets 405.
C28_McpRouting ==
  [][mcpStep =>
       IF http'.req.method = "POST"
         THEN IF registeredSession(http'.req.sessionId)
                THEN /\ http'.req.to = mapGet(http.streamable, http'.req.sessionId)
                     /\ http'.made = http.made
              ELSE IF http'.req.sessionId = NoSessionId /\ http'.req.initialize
                THEN /\ Len(http'.made) = Len(http.made) + 1
                     /\ http'.req.created = <<http'.made[Len(http'.made)].name>>
                     /\ http'.made[Len(http'.made)].connected =>
                          http'.req.to = http'.made[Len(http'.made)].name
              ELSE /\ http'.req.status = "400"
                   /\ http'.req.code = "-32000"
                   /\ http'.made = http.made
       ELSE IF http'.req.method \in {"GET", "DELETE"}
         THEN ~registeredSession(http'.req.sessionId) => http'.req.status = "400"
         ELSE http'.req.status = "405"]_allVars

\* the session ids of the transports created are those of random UUIDs: no
\* two alike
distinctSessionIds ==
  \A n, m \in 1..Len(http.made) :
    (n # m /\ http.made[n].sessionId = http.made[m].sessionId) =>
      http.made[n].sessionId = NoSessionId

\* the streamable registry holds the sessions of the transports that are
\* initialized and not closed, each under its own id
registeredWhileOpen ==
  /\ {http.streamable[i].key : i \in 1..Len(http.streamable)}
       = openSessions("streamable")
  /\ \A i \in 1..Len(http.streamable) :
       http.made[nth(http.streamable[i].val)].sessionId = http.streamable[i].key
  /\ distinctSessionIds

\* the request of the step carries the session id of a transport closed
\* before it
toClosedSession ==
  /\ mcpStep
  /\ http'.req.method \in {"POST", "GET", "DELETE"}
  /\ \E n \in 1..Len(http.made) :
       /\ http.made[n].kind = "streamable"
       /\ ~http.made[n].open
       /\ http.made[n].sessionId = http'.req.sessionId
       /\ http'.req.sessionId # NoSessionId

\* C29: a streamable session id is in the registry from its transport's
\* session-initialized callback to that transport's close, no two
\* transports under one id; a POST, GET or DELETE that carries the id of a
\* transport closed before is answered 400 and handed to no transport
C29_RegisteredFromInitToClose ==
  /\ []registeredWhileOpen
  /\ [][toClosedSession => (http'.req.status = "400" /\ http'.req.to = "none")]_allVars

\* a POST for a session whose transport has closed, another session being
\* registered
C29_Witness ==
  /\ http.req.route = "/mcp"
  /\ http.req.method = "POST"
  /\ ofClosedSession("streamable")
  /\ http.req.sessionId # NoSessionId
  /\ http.req.status = "400"
  /\ http.req.to = "none"
  /\ http.streamable # <<>>

\* ---------------------------------------------------------------------------
\* a search request answered by fallbackSearch is handled in the step
fallbackStep ==
  /\ last.op = "none"
  /\ last'.op = "searchDocs"
  /\ last'.via = "fallback"

\* the content of the i-th navigation entry has been assigned: the content
\* loop is the only code that assigns it, with what fetchDocContent returned
assigned(i) == items[docStructure[i]].content # Undefined

\* another entry with the same address still lacks its content
sameAddressUnassigned(i) ==
  \E j \in 1..Len(docStructure) :
    /\ j # i
    /\ items[docStructure[j]].url = items[docStructure[i]].url
    /\ ~assigned(j)

\* C30 (as stated): the content loop fetches the body of a navigation entry
\* only when the entry has no content yet and keeps what it fetched, so no
\* fallback search fetches the address of an entry whose content an earlier
\* search has assigned.
C30_EntryFetchedOnce ==
  [][fallbackStep =>
       \A i \in 1..Len(docStructure) :
         (assigned(i) /\ ~sameAddressUnassigned(i)) =>
           /\ items[docStructure[i]].url \notin Range(last'.fetched)
           /\ items'[docStructure[i]].content = items[docStructure[i]].content]_allVars

\* ---------------------------------------------------------------------------
\* two answers to one request agree: both are errors, or both return the
\* same title, url and content
sameAnswer(a, b) ==
  \/ a.status = "error" /\ b.status = "error"
  \/ a.status = "ok" /\ b.status = "ok" /\ a.doc = b.doc

\* C31 (as stated): getDocumentHandler of the shared tools and
\* getDocument.handler of the service agree: on every state of the fetcher
\* in which requests are taken, for every path and title, with the index
\* and the network doing the same for both, either both fail or both return
\* the same title, url and content.
C31_HandlersAgree ==
  accepting =>
    \A req \in DocumentRequests, net \in NetPatterns :
      \A lunr \in LunrOutcomes(searchIndex), lunrTitle \in TitleOutcomes(searchIndex) :
        sameAnswer(
          getDocumentHandler(fetcher, "tools", req.path, req.title,
                             lunr, net, lunrTitle).out,
          getDocumentHandler(fetcher, "service", req.path, req.title,
                             lunr, net, lunrTitle).out)

\* ---------------------------------------------------------------------------
\* the lower-cased title of the k-th entry of the navigation structure
keyOf(k) == toLowerCase(items[docStructure[k]].title)

\* the last entry, in the order of the page, with the lower-cased title of
\* the k-th
lastOfTitle(k) ==
  CHOOSE j \in 1..Len(docStructure) :
    /\ keyOf(j) = keyOf(k)
    /\ \A n \in (j + 1)..Len(docStructure) : keyOf(n) # keyOf(k)

\* C32: once init() has resolved, every value of the title map is an entry
\* of the navigation structure, the lower-cased title of every entry is a key
\* of the map, and of the entries that share a lower-cased title the map holds
\* the last in the order of the page
C32_TitleMapMatchesStructure ==
  initState = "resolved" =>
    /\ \A i \in 1..Len(docMap) : docMap[i].val \in Range(docStructure)
    /\ \A k \in 1..Len(docStructure) :
         /\ mapHas(docMap, keyOf(k))
         /\ mapGet(docMap, keyOf(k)) = docStructure[lastOfTitle(k)]

\* a structure with two entries of one lower-cased title
C32_Witness ==
  /\ initState = "resolved"
  /\ \E k \in 1..Len(docStructure) :
       /\ lastOfTitle(k) # k
       /\ items[docStructure[k]].url # items[docStructure[lastOfTitle(k)]].url
       /\ mapGet(docMap, keyOf(k)) # docStructure[k]

====
